---------------------------- MODULE Spec2Model ----------------------------
(***************************************************************************)
(* State-machine model of the streaming client of the gate-entry frontend. *)
(*                                                                         *)
(* The streaming hook useWebSocketAlternative (src/unnamed/part_000, the   *)
(* hook App.tsx imports) is modelled handler by handler.  React state      *)
(* cells (useState) and ref cells (useRef) are variables; every socket the *)
(* hook ever creates is an entry of sock, because the handlers of a        *)
(* replaced socket stay attached and still run when its events arrive.     *)
(*                                                                         *)
(* Frames are identified by their push number (1, 2, 3, ...), so push      *)
(* order is the order of the identifiers.                                  *)
(***************************************************************************)
EXTENDS Integers, Sequences, FiniteSets

\* ------------------------------------------------------------------ bounds
\* Sockets the hook may create in one run.
MaxSockets == 2
\* Frames handed to queueFrame in one run with reconnects.
MaxFrames == 2
\* Sockets the hook may create in one run with no frames offered.
MaxSocketsRetry == 3
\* Frames handed to queueFrame in one run over a single connection: more
\* than the queue holds.
MaxFramesOneConn == 7
\* Largest attempt count the reconnect-delay function is evaluated for.
MaxAttempts == 14
\* Largest coordinate in the generated prediction entries.
MaxCoord == 2
\* Acquisitions (Start Camera clicks, camera toggles, file selections) in one
\* run of the frame source.
MaxStarts == 2
\* Clock units per capture interval (1000/TARGET_FPS ms): the clock of the
\* frame source counts units of 1000/(TARGET_FPS * Resolution) ms.
Resolution == 2
\* Latest clock value at which a capture tick fires.
MaxTime == 5
\* Largest frame-skip factor N the capture loop is run with.
MaxSkip == 3
\* Latest clock value at which a tick fires in a single capture session.
MaxTimePacing == 12
\* Ingests of the exit log in a run.
MaxIngests == 3
\* Pairs a pull returns beyond the pull cap.
MaxOver == 2

\* ------------------------------------------------------- program constants
MAX_QUEUE_SIZE == 5
\* Math.min(2000 * Math.pow(1.5, Math.min(attempts, 10)), 30000)
BaseDelay == 2000
GrowthNum == 3
GrowthDen == 2
AttemptCap == 10
MaxDelay == 30000
\* VideoInput.tsx: send 1 in every FRAME_SKIP frames.
FRAME_SKIP == 1
\* History caps of the exit log: slice(0, 20) and slice(0, 50).
PUSH_CAP == 20
PULL_CAP == 50
\* Milliseconds per second, and Date.now() when the run starts.
MsPerSecond == 1000
ClockStart == 2000

VARIABLES
    mountState,         \* "initial" | "mounted" | "unmounted" (mount effect)
    isConnected,        \* useState: isConnected
    closureConnected,   \* isConnected as captured by the callbacks of the latest render
    error,              \* useState: error ("null" | "connect")
    lastResponse,       \* useState: lastResponse (0 = null, else the frame it answers)
    queueSize,          \* useState: queueSize
    lastLatency,        \* useState: lastLatency (<<0,0>> initially, else <<frame timed, frame answered>>)
    wsRef,              \* useRef: wsRef.current (0 = null, else a socket)
    frameQueueRef,      \* useRef: frameQueueRef.current
    processingRef,      \* useRef: processingRef.current
    lastSentTimeRef,    \* useRef: lastSentTimeRef.current (0 = null, else the frame whose pop set it)
    connectionAttempts, \* useRef: connectionAttempts.current
    sock,               \* every WebSocket created: readyState, frames sent and unanswered, whether it opened
    nextSock,           \* number of sockets created so far
    reads,              \* frames whose FileReader read is in flight
    timers,             \* number of pending reconnect timers (setTimeout in onclose)
    nextFrame,          \* identifier of the next frame pushed
    frameLimit,         \* number of frames the frame source offers in this run
    sockLimit,          \* number of sockets the hook may create in this run
    staleTimers,        \* history: pending reconnect timers set before the latest reconnect() call
    lastPopped,         \* history: the frame removed by the latest pop (0 = none yet)
    pushRun,            \* history: pushes since the latest pop
    lastSent,           \* history: the frame passed to ws.send most recently (0 = none yet)
    lastDelay,          \* history: delay computed by the latest onclose, in 1/2^AttemptCap ms
    lastCloseOpened,    \* history: whether the socket of the latest onclose had opened
    dA, dB,             \* reconnect-delay function: two attempt counts
    dOutA, dOutB,       \* reconnect-delay function: the delays computed for them (-1 = not yet)
    respPc,             \* response path: "idle" | "wire" | "decoded" | "processed"
    wireKind,           \* response path: framing of the message on the wire (event.data)
    wireBody,           \* response path: the JSON object the service serialised
    responseData,       \* response path: what onmessage handed to setLastResponse, if anything
    predictions,        \* App useState: predictions (output of processWebSocketResponse)
    source,             \* VideoInput useState: source ("webcam" | "file")
    isPlaying,          \* VideoInput useState: isPlaying
    videoError,         \* VideoInput useState: error ("null" | "webcam" | "play" | "file")
    srcObject,          \* videoRef.current.srcObject (0 = null, else a stream)
    streams,            \* every MediaStream obtained: "none" | "live" | "stopped" (its tracks)
    nextStream,         \* number of streams obtained so far
    videoSrc,           \* videoRef.current.src ("" | "blob")
    liveUrls,           \* object URLs created and not revoked
    videoPaused,        \* videoRef.current.paused
    hasMetadata,        \* videoRef.current.videoWidth > 0 and videoHeight > 0
    loading,            \* a loadedmetadata event is due for the attached media
    playPending,        \* play() promises not settled
    playAborted,        \* play() promises that pause() or a new load will reject
    gumExact,           \* getUserMedia requests pending with facingMode exact
    gumIdeal,           \* getUserMedia requests pending with facingMode ideal
    lastGum,            \* history: the latest getUserMedia settlement
    restartTimers,      \* pending setTimeout(startWebcam, 500) of the camera toggle
    cameraFacing,       \* cameraFacing state: "user" | "environment"
    timerFacing,        \* cameraFacing in the startWebcam each pending restart timer calls
    gumReqs,            \* pending getUserMedia requests by mode, facing asked and facing current at the call
    rafRef,             \* rafRef.current: "null" | "pending" (its tick is due) | "stale"
    ticksPending,       \* requestAnimationFrame callbacks of captureFrame that are due
    encodes,            \* canvas.toBlob callbacks in flight
    staleEncodes,       \* history: toBlob callbacks in flight since before the latest stopVideoStream
    frameCountRef,      \* frameCountRef.current
    skipFrameCountRef,  \* skipFrameCountRef.current
    lastCaptureTimeRef, \* lastCaptureTimeRef.current, in clock units
    now,                \* performance.now(), in clock units
    emitted,            \* frames handed to onFrame (frameCallbackRef.current) so far
    starts,             \* acquisitions begun so far
    frameSkip,          \* the frame-skip factor N of this run
    timeLimit,          \* latest clock value at which a tick fires in this run
    lastTick,           \* history: what the latest captureFrame run did
    lastBlob,           \* history: what the latest toBlob callback received
    procPc,             \* processWebSocketResponse call: "idle" | "called" | "done"
    procInput,          \* processWebSocketResponse call: the argument
    procOut,            \* processWebSocketResponse call: how it completed, and the value returned
    exitLog,            \* App useState: exitLog (entries: names, sortTime; the display string is left out)
    wallClock,          \* Date.now(), in ms
    lastIngest,         \* history: the latest ingest (kind, what arrived, the entries built from it)
    ingests,            \* ingests so far
    ingestLimit,        \* number of ingests in this run
    ovVideo,            \* overlay: videoWidth x videoHeight of the video element (0 = no media)
    ovRect,             \* overlay: size of the video's getBoundingClientRect() now
    scaleFactor,        \* CanvasOverlay useState: scaleFactor
    videoRect,          \* CanvasOverlay useState: videoRect (set or null), with the sizes measured then
    ovCanvas,           \* overlay: canvas.width x canvas.height
    ovPredictions,      \* CanvasOverlay prop: predictions
    drawn,              \* history: the boxes of the latest draw
    overlayOn,          \* whether the overlay is exercised in this run
    lastMeasure,        \* history: what the latest updateCanvasDimensions did ("none" | "skipped" | "done")
    videoDims,          \* video.videoWidth x video.videoHeight at a captureFrame run (0 = none)
    canvasDims          \* canvas.width x canvas.height as captureFrame set them (0 = not yet)

wsVars == <<mountState, isConnected, closureConnected, error, lastResponse, queueSize,
            lastLatency, wsRef, frameQueueRef, processingRef, lastSentTimeRef,
            connectionAttempts, sock, nextSock, reads, timers, nextFrame, frameLimit,
            sockLimit, staleTimers, lastPopped, pushRun, lastSent, lastDelay,
            lastCloseOpened>>
delayVars == <<dA, dB, dOutA, dOutB>>
responseVars == <<respPc, wireKind, wireBody, responseData, predictions>>
captureVars == <<source, isPlaying, videoError, srcObject, streams, nextStream, videoSrc,
                  liveUrls, videoPaused, hasMetadata, loading, playPending, playAborted,
                  gumExact, gumIdeal, lastGum, restartTimers, rafRef, ticksPending,
                  encodes, staleEncodes, frameCountRef, skipFrameCountRef,
                  lastCaptureTimeRef, now, emitted, starts, frameSkip, timeLimit,
                  lastTick, lastBlob, cameraFacing, timerFacing, gumReqs>>
facingVars == <<cameraFacing, timerFacing, gumReqs>>
procVars == <<procPc, procInput, procOut>>
exitVars == <<exitLog, wallClock, lastIngest, ingests, ingestLimit>>
overlayVars == <<ovVideo, ovRect, scaleFactor, videoRect, ovCanvas, ovPredictions, drawn,
                  overlayOn, lastMeasure>>
sizeVars == <<videoDims, canvasDims>>
appVars == <<procVars, exitVars, overlayVars, sizeVars>>
otherVars == <<delayVars, responseVars, captureVars, appVars>>
vars == <<wsVars, otherVars>>

Max(a, b) == IF a >= b THEN a ELSE b

Sockets == 1..Max(MaxSockets, MaxSocketsRetry)
Streams == 1..MaxStarts
PayloadKinds == {"text", "garbled", "binary"}

Min(a, b) == IF a <= b THEN a ELSE b

RECURSIVE Pow(_, _)
Pow(b, e) == IF e = 0 THEN 1 ELSE b * Pow(b, e - 1)

\* ------------------------------------------------------ reconnect delay
\* One millisecond in the unit the delay is kept in: 1.5^k has denominator
\* 2^k with k <= AttemptCap, so delay * 2^AttemptCap is an integer and the
\* floating-point value of the source is represented exactly.
DelayUnit == Pow(GrowthDen, AttemptCap)

\* Variant of ReconnectDelay: the clamp to the maximum delay is missing.
ReconnectDelay_Unclamped(attempts) ==
    LET k == Min(attempts, AttemptCap)
    IN  BaseDelay * Pow(GrowthNum, k) * Pow(GrowthDen, AttemptCap - k)

ReconnectDelay(attempts) ==
    LET k == Min(attempts, AttemptCap)
    IN  Min(BaseDelay * Pow(GrowthNum, k) * Pow(GrowthDen, AttemptCap - k),
            MaxDelay * DelayUnit)

\* ------------------------------------------------------------ helpers
\* isConnected as seen by the processNextFrame that connect's handlers call:
\* connect is memoised with no dependencies, so its closure is the first
\* render's, where isConnected is the initial useState value.
MountIsConnected == FALSE

\* JSON.parse(event.data): only a well-formed JSON text parses.
JsonParses(kind) == kind = "text"

IsOpen(w, sk) == IF w = 0 THEN FALSE ELSE sk[w].readyState = "OPEN"

\* !wsRef.current || wsRef.current.readyState === WebSocket.CLOSED
NoLiveSocket(w, sk) == IF w = 0 THEN TRUE ELSE sk[w].readyState = "CLOSED"

\* ws.close() on a socket: CONNECTING and OPEN become CLOSING.
CloseSocket(sk, w) ==
    IF (IF w = 0 THEN FALSE ELSE sk[w].readyState \in {"CONNECTING", "OPEN"})
    THEN [sk EXCEPT ![w].readyState = "CLOSING"]
    ELSE sk

\* Variant of DropOldest: evicts only above capacity (> for >=).
RECURSIVE DropOldest_OffByOne(_)
DropOldest_OffByOne(q) ==
    IF Len(q) > MAX_QUEUE_SIZE THEN DropOldest_OffByOne(Tail(q)) ELSE q

\* Variant of DropOldest: evicts the newest element (pop for shift).
RECURSIVE DropOldest_DropsNewest(_)
DropOldest_DropsNewest(q) ==
    IF Len(q) >= MAX_QUEUE_SIZE
    THEN DropOldest_DropsNewest(SubSeq(q, 1, Len(q) - 1))
    ELSE q

\* while (queue.length >= MAX_QUEUE_SIZE) queue.shift()
RECURSIVE DropOldest(_)
DropOldest(q) == IF Len(q) >= MAX_QUEUE_SIZE THEN DropOldest(Tail(q)) ELSE q

\* Variant of ProcessNextFrame: takes the newest queued frame (pop for shift).
ProcessNextFrame_PopsNewest(conn, proc, q, qs, lst, rds, w, sk) ==
    IF ~conn \/ proc \/ Len(q) = 0 \/ ~IsOpen(w, sk)
    THEN [proc |-> proc, q |-> q, qs |-> qs, lst |-> lst, rds |-> rds, popped |-> 0]
    ELSE [proc |-> TRUE, q |-> SubSeq(q, 1, Len(q) - 1), qs |-> Len(q) - 1,
          lst |-> q[Len(q)], rds |-> rds \cup {q[Len(q)]}, popped |-> q[Len(q)]]

\* processNextFrame, as a function of the values it reads: conn is the
\* isConnected of its closure.  The result gives the cells it writes and the
\* frame it popped (0 = it returned early).
ProcessNextFrame(conn, proc, q, qs, lst, rds, w, sk) ==
    IF ~conn \/ proc \/ Len(q) = 0 \/ ~IsOpen(w, sk)
    THEN [proc |-> proc, q |-> q, qs |-> qs, lst |-> lst, rds |-> rds, popped |-> 0]
    ELSE [proc |-> TRUE, q |-> Tail(q), qs |-> Len(Tail(q)), lst |-> Head(q),
          rds |-> rds \cup {Head(q)}, popped |-> Head(q)]


\* ------------------------------------------------------------ responses
\* A JavaScript number: NaN, or a value.
Num(n) == [nan |-> FALSE, v |-> n]
NaN == [nan |-> TRUE, v |-> 0]

\* JSON scalars as they come out of JSON.parse.
JNum(n) == [t |-> "number", s |-> "", n |-> n]
JStr(x) == [t |-> "string", s |-> x, n |-> 0]
JNull == [t |-> "null", s |-> "", n |-> 0]

\* Number(string): the empty string is 0, a decimal literal is its value,
\* anything else is NaN.
StringToNumber(x) ==
    CASE x = ""  -> Num(0)
      [] x = "0" -> Num(0)
      [] x = "1" -> Num(1)
      [] x = "2" -> Num(2)
      [] OTHER   -> NaN

\* Number(value) for a JSON scalar.
ToNumber(j) ==
    CASE j.t = "number" -> Num(j.n)
      [] j.t = "null"   -> Num(0)
      [] j.t = "string" -> StringToNumber(j.s)

\* String(value) for a JSON string or null.
ToStr(j) ==
    CASE j.t = "string" -> j.s
      [] j.t = "null"   -> "null"

\* An entry of predictions: an array of JSON scalars, or a value that is not
\* an array (for which elems are its indexed elements, if it has any).
ArrayEntry(elems) == [isArray |-> TRUE, elems |-> elems]
NonArrayEntry(elems) == [isArray |-> FALSE, elems |-> elems]

\* Variant of PredictionRecord: the box is copied without normalising it.
PredictionRecord_NoNormalize(trackId, e) ==
    [trackId    |-> trackId,
     name       |-> ToStr(e[1]),
     confidence |-> ToNumber(e[2]),
     x1 |-> ToNumber(e[3]).v,
     y1 |-> ToNumber(e[4]).v,
     x2 |-> ToNumber(e[5]).v,
     y2 |-> ToNumber(e[6]).v]

\* The record pushed for an accepted entry (lines 43-57).
PredictionRecord(trackId, e) ==
    LET parsedX1 == ToNumber(e[3])
        parsedY1 == ToNumber(e[4])
        parsedX2 == ToNumber(e[5])
        parsedY2 == ToNumber(e[6])
    IN  [trackId    |-> trackId,
         name       |-> ToStr(e[1]),
         confidence |-> ToNumber(e[2]),
         x1 |-> Min(parsedX1.v, parsedX2.v),
         y1 |-> Min(parsedY1.v, parsedY2.v),
         x2 |-> Max(parsedX1.v, parsedX2.v),
         y2 |-> Max(parsedY1.v, parsedY2.v)]

\* Variant of ProcessEntry: an array of exactly 6 elements is rejected
\* (<= for <).
ProcessEntry_OffByOne(trackId, prediction) ==
    IF ~prediction.isArray \/ Len(prediction.elems) <= 6
    THEN <<>>
    ELSE LET e == prediction.elems
         IN  IF \/ ToNumber(e[3]).nan \/ ToNumber(e[4]).nan
                \/ ToNumber(e[5]).nan \/ ToNumber(e[6]).nan
             THEN <<>>
             ELSE <<PredictionRecord(trackId, e)>>

\* The body of the forEach callback for one [trackId, prediction] pair: the
\* records it appends (none when it returns early).
ProcessEntry(trackId, prediction) ==
    IF ~prediction.isArray \/ Len(prediction.elems) < 6
    THEN <<>>
    ELSE LET e == prediction.elems
         IN  IF \/ ToNumber(e[3]).nan \/ ToNumber(e[4]).nan
                \/ ToNumber(e[5]).nan \/ ToNumber(e[6]).nan
             THEN <<>>
             ELSE <<PredictionRecord(trackId, e)>>

\* Object.entries(response.predictions).forEach(...), in entry order.
RECURSIVE ProcessEntries(_)
ProcessEntries(entries) ==
    IF entries = <<>> THEN <<>>
    ELSE ProcessEntry(Head(entries).key, Head(entries).val)
             \o ProcessEntries(Tail(entries))

\* processWebSocketResponse(response): response.predictions is given as the
\* sequence Object.entries yields for it.
ProcessWebSocketResponse(response) ==
    IF ~response.hasPredictions THEN <<>>
    ELSE ProcessEntries(response.predictions)

\* How a call of processWebSocketResponse completes: by returning a value
\* or with an exception.
Returned(v) == [threw |-> FALSE, value |-> v]
Threw == [threw |-> TRUE, value |-> <<>>]

\* The argument of processWebSocketResponse: null, or a parsed object.
NullResponse == [isNull |-> TRUE, body |-> [hasPredictions |-> FALSE, predictions |-> <<>>]]
ObjectResponse(b) == [isNull |-> FALSE, body |-> b]

\* Variant of ProcessCall: response.predictions is read without the test of
\* response itself, which is a TypeError for null.
ProcessCall_NoNullGuard(response) ==
    IF response.isNull THEN Threw
    ELSE Returned(ProcessWebSocketResponse(response.body))

\* A call processWebSocketResponse(response), lines 9-12 and 16-65: a null
\* response returns the empty list before response.predictions is read;
\* inside the try nothing is dereferenced that can be null or undefined
\* (entries that are not arrays return before the destructuring).
ProcessCall(response) ==
    IF response.isNull THEN Returned(<<>>)
    ELSE Returned(ProcessWebSocketResponse(response.body))

\* ------------------------------------------------------------ exit log
\* An element of an entry's names: a name (exit_ids of a response, the name
\* of a pulled pair), or a whole [name, timestamp] pair (t > 0, the
\* timestamp in seconds), as handleVideoStop stores it.
NameItem(n) == [n |-> n, t |-> 0]
PairItem(n, t) == [n |-> n, t |-> t]

\* Array.prototype.sort() without a comparator orders by String(element):
\* "Alice" < "Alice,<timestamp>" < "Bob", equal names by timestamp.
NameRank(n) == IF n = "Alice" THEN 1 ELSE 2
ItemBefore(a, b) ==
    \/ NameRank(a.n) < NameRank(b.n)
    \/ NameRank(a.n) = NameRank(b.n) /\ a.t < b.t

\* Stable insertion of x into a sequence sorted by ItemBefore.
RECURSIVE InsertItem(_, _)
InsertItem(x, sorted) ==
    IF sorted = <<>> THEN <<x>>
    ELSE IF ItemBefore(x, Head(sorted)) THEN <<x>> \o sorted
    ELSE <<Head(sorted)>> \o InsertItem(x, Tail(sorted))

\* names.sort()
RECURSIVE SortItems(_)
SortItems(items) ==
    IF items = <<>> THEN <<>>
    ELSE InsertItem(items[Len(items)], SortItems(SubSeq(items, 1, Len(items) - 1)))

\* new Date(timestamp).getTime() for an ISO timestamp given in seconds.
DateParse(t) == t * MsPerSecond

\* entry.names.sort().join(',') + '-' + entry.sortTime
EntryKey(e) == <<SortItems(e.names), e.sortTime>>
ExistingEntries(log) == {EntryKey(log[i]) : i \in DOMAIN log}

\* Variant of Slice: one element more than the limit is kept.
Slice_OneMore(s, n) == SubSeq(s, 1, Min(Len(s), n + 1))

\* array.slice(0, n)
Slice(s, n) == SubSeq(s, 1, Min(Len(s), n))

\* The entry fetchAllExits builds for one [name, timestamp] pair.
PulledEntry(pair) == [names |-> <<NameItem(pair.n)>>, sortTime |-> DateParse(pair.t)]

\* The forEach of fetchAllExits (lines 80-100): the entries pushed to
\* newEntries, given the keys seen so far.
RECURSIVE NewEntries(_, _)
NewEntries(pairs, existing) ==
    IF pairs = <<>> THEN <<>>
    ELSE LET e == PulledEntry(Head(pairs))
         IN  IF EntryKey(e) \in existing
             THEN NewEntries(Tail(pairs), existing)
             ELSE <<e>> \o NewEntries(Tail(pairs), existing \cup {EntryKey(e)})

\* The setExitLog updater of fetchAllExits (lines 68-105).
FetchAllUpdater(prevLog, pairs) ==
    Slice(NewEntries(pairs, ExistingEntries(prevLog)) \o prevLog, PULL_CAP)

\* The entry the lastResponse effect and handleVideoStop build: the sorted
\* array itself as names, the current time as sortTime.
LiveEntry(items, nowMs) == [names |-> SortItems(items), sortTime |-> nowMs]

\* Variant of LiveUpdater: the entry is added without looking for its key.
LiveUpdater_NoDedupe(prevLog, items, nowMs) ==
    Slice(<<LiveEntry(items, nowMs)>> \o prevLog, PUSH_CAP)

\* The setExitLog updater of the lastResponse effect (lines 153-183) and of
\* handleVideoStop (lines 210-240).
LiveUpdater(prevLog, items, nowMs) ==
    IF EntryKey(LiveEntry(items, nowMs)) \in ExistingEntries(prevLog)
    THEN prevLog
    ELSE Slice(<<LiveEntry(items, nowMs)>> \o prevLog, PUSH_CAP)

\* Variant of CompareEntries: ascending.
CompareEntries_Ascending(a, b) == a.sortTime - b.sortTime

\* (a, b) => b.sortTime - a.sortTime
CompareEntries(a, b) == b.sortTime - a.sortTime

\* Stable insertion of x into a sequence sorted by CompareEntries.
RECURSIVE InsertEntry(_, _)
InsertEntry(x, sorted) ==
    IF sorted = <<>> THEN <<x>>
    ELSE IF CompareEntries(x, Head(sorted)) < 0 THEN <<x>> \o sorted
    ELSE <<Head(sorted)>> \o InsertEntry(x, Tail(sorted))

\* ExitLog, line 11: [...entries].sort((a, b) => b.sortTime - a.sortTime)
RECURSIVE SortedEntries(_)
SortedEntries(entries) ==
    IF entries = <<>> THEN <<>>
    ELSE InsertEntry(entries[Len(entries)],
                     SortedEntries(SubSeq(entries, 1, Len(entries) - 1)))

\* ------------------------------------------------------------ overlay
\* Scale factors and scaled coordinates are fractions in lowest terms
\* <<numerator, denominator>>: the quotient rect.width / videoWidth and the
\* product with a coordinate, without rounding.
RECURSIVE Gcd(_, _)
Gcd(a, b) == IF b = 0 THEN a ELSE Gcd(b, a % b)
Frac(n, d) == <<n \div Gcd(n, d), d \div Gcd(n, d)>>
FracTimes(x, f) == Frac(x * f[1], f[2])
FracLeq(f, g) == f[1] * g[2] <= g[1] * f[2]
FracMin(f, g) == IF FracLeq(f, g) THEN f ELSE g
FracMax(f, g) == IF FracLeq(f, g) THEN g ELSE f
FracMinus(f, g) == Frac(f[1] * g[2] - g[1] * f[2], f[2] * g[2])
FracPlus(f, g) == Frac(f[1] * g[2] + g[1] * f[2], f[2] * g[2])

\* Variant of ScaleFactorOf: both axes use the horizontal quotient.
ScaleFactorOf_XOnly(rect, video) ==
    [x |-> Frac(rect.w, video.w), y |-> Frac(rect.w, video.w)]

\* updateCanvasDimensions, lines 133-136: the scale factors for a displayed
\* rectangle and the intrinsic video size.
ScaleFactorOf(rect, video) ==
    [x |-> Frac(rect.w, video.w), y |-> Frac(rect.h, video.h)]

\* Draw effect, lines 204-209: the scaled coordinates of one prediction.
ScaledCoords(pred, sf) ==
    [x1 |-> FracTimes(pred.x1, sf.x), y1 |-> FracTimes(pred.y1, sf.y),
     x2 |-> FracTimes(pred.x2, sf.x), y2 |-> FracTimes(pred.y2, sf.y)]

\* Draw effect, lines 212-215: Math.max(0, Math.min(limit, v)).
ClampTo(limit, v) == FracMax(<<0, 1>>, FracMin(<<limit, 1>>, v))
ClampedCoords(sc, canvas) ==
    [x1 |-> ClampTo(canvas.w, sc.x1), y1 |-> ClampTo(canvas.h, sc.y1),
     x2 |-> ClampTo(canvas.w, sc.x2), y2 |-> ClampTo(canvas.h, sc.y2)]

\* Draw effect, lines 218-219: Math.max(5, hi - lo).
MIN_BOX == 5

\* Variant of BoxDimension: the difference as it is.
BoxDimension_NoFloor(lo, hi) == FracMinus(hi, lo)

BoxDimension(lo, hi) == FracMax(<<MIN_BOX, 1>>, FracMinus(hi, lo))

\* Lines 218-224: the rectangle of ctx.strokeRect.
BoxRect(cl) ==
    [x |-> cl.x1, y |-> cl.y1,
     w |-> BoxDimension(cl.x1, cl.x2), h |-> BoxDimension(cl.y1, cl.y2)]

\* Lines 233-235: textWidth and textHeight of the label; pred.measured is
\* what ctx.measureText(label).width returns for it.
LABEL_PADDING == 10
UNKNOWN_HEIGHT == 20
KNOWN_HEIGHT == 24
TextWidth(pred) == pred.measured + LABEL_PADDING
TextHeight(pred) == IF pred.unknown THEN UNKNOWN_HEIGHT ELSE KNOWN_HEIGHT

\* Variant of LabelX: the label starts at the box, wherever that is.
LabelX_AtBox(pred, cl, canvas) == FracMax(<<0, 1>>, cl.x1)

\* Lines 238-248: labelX, labelY and the rectangle of ctx.fillRect.
LabelX(pred, cl, canvas) ==
    FracMax(<<0, 1>>, FracMin(cl.x1, <<canvas.w - TextWidth(pred), 1>>))
LabelY(pred, cl) == FracMax(<<TextHeight(pred), 1>>, cl.y1)
LabelRect(pred, cl, canvas) ==
    [x |-> LabelX(pred, cl, canvas),
     y |-> FracMinus(LabelY(pred, cl), <<TextHeight(pred), 1>>),
     w |-> TextWidth(pred), h |-> TextHeight(pred)]

\* What the draw effect (lines 170-258) leaves on the canvas: nothing when it
\* returns early, else for each prediction the scaled and the clamped
\* coordinates, the stroked rectangle and the label background.
NothingDrawn == <<>>
DrawEffect(preds, sf, rectSet, canvas) ==
    IF \/ ~rectSet
       \/ Len(preds) = 0
       \/ canvas.w = 0 \/ canvas.h = 0
       \/ sf.x[1] <= 0 \/ sf.y[1] <= 0
    THEN NothingDrawn
    ELSE [i \in DOMAIN preds |->
              [pred    |-> preds[i],
               scaled  |-> ScaledCoords(preds[i], sf),
               clamped |-> ClampedCoords(ScaledCoords(preds[i], sf), canvas),
               box     |-> BoxRect(ClampedCoords(ScaledCoords(preds[i], sf), canvas)),
               label   |-> LabelRect(preds[i],
                                     ClampedCoords(ScaledCoords(preds[i], sf), canvas),
                                     canvas)]]

\* ------------------------------------------------------------ initial state
NoSocket == [readyState |-> "NONE", inflight |-> <<>>, opened |-> FALSE]

InitWs ==
    /\ mountState = "initial"
    /\ isConnected = FALSE
    /\ closureConnected = FALSE
    /\ error = "null"
    /\ lastResponse = 0
    /\ queueSize = 0
    /\ lastLatency = <<0, 0>>
    /\ wsRef = 0
    /\ frameQueueRef = <<>>
    /\ processingRef = FALSE
    /\ lastSentTimeRef = 0
    /\ connectionAttempts = 0
    /\ sock = [s \in Sockets |-> NoSocket]
    /\ nextSock = 0
    /\ reads = {}
    /\ timers = 0
    /\ staleTimers = 0
    /\ nextFrame = 1
    /\ lastPopped = 0
    /\ pushRun = 0
    /\ lastSent = 0
    /\ lastDelay = 0
    /\ lastCloseOpened = FALSE

InitDelayIdle ==
    /\ dA = 0
    /\ dB = 0
    /\ dOutA = -1
    /\ dOutB = -1

InitResponseIdle ==
    /\ respPc = "idle"
    /\ wireKind = "text"
    /\ wireBody = [hasPredictions |-> FALSE, predictions |-> <<>>]
    /\ responseData = [ok |-> FALSE, data |-> [hasPredictions |-> FALSE, predictions |-> <<>>]]
    /\ predictions = <<>>

InitProcIdle ==
    /\ procPc = "idle"
    /\ procInput = NullResponse
    /\ procOut = Returned(<<>>)

InitExitIdle ==
    /\ exitLog = <<>>
    /\ wallClock = ClockStart
    /\ lastIngest = [kind |-> "none", batch |-> <<>>, offered |-> <<>>, added |-> FALSE]
    /\ ingests = 0
    /\ ingestLimit = 0

InitOverlayIdle ==
    /\ ovVideo = [w |-> 0, h |-> 0]
    /\ ovRect = [w |-> 640, h |-> 360]
    /\ scaleFactor = [x |-> <<1, 1>>, y |-> <<1, 1>>]
    /\ videoRect = [set |-> FALSE, rect |-> [w |-> 0, h |-> 0], video |-> [w |-> 0, h |-> 0]]
    /\ ovCanvas = [w |-> 640, h |-> 480]
    /\ ovPredictions = <<>>
    /\ drawn = <<>>
    /\ overlayOn = FALSE
    /\ lastMeasure = "none"

NoDims == [w |-> 0, h |-> 0]

InitSizeIdle == videoDims = NoDims /\ canvasDims = NoDims

InitAppIdle == InitProcIdle /\ InitExitIdle /\ InitOverlayIdle /\ InitSizeIdle

GumModes == {"exact", "ideal"}

\* CameraFacing (VideoInput.tsx line 5) and the flip of toggleCamera's updater.
Facings == {"user", "environment"}
Flip(f) == IF f = "user" THEN "environment" ELSE "user"

\* A getUserMedia request: the facingMode it asks for (the cameraFacing of
\* the startWebcam closure that makes it) and, for reference, the
\* cameraFacing state at the moment startWebcam was called.
Requests == [facing : Facings, wanted : Facings]
NoRequests == [mode \in GumModes |-> [r \in Requests |-> 0]]
AddRequest(reqs, mode, r) == [reqs EXCEPT ![mode][r] = @ + 1]
RemoveRequest(reqs, mode, r) == [reqs EXCEPT ![mode][r] = @ - 1]

\* One pending request of the mode settles; a retry repeats it with
\* facingMode ideal from the same closure.
SettleRequest(mode, retry) ==
    \E r \in Requests :
        /\ gumReqs[mode][r] > 0
        /\ gumReqs' = IF retry
                      THEN AddRequest(RemoveRequest(gumReqs, mode, r), "ideal", r)
                      ELSE RemoveRequest(gumReqs, mode, r)

\* VideoInput as constructed; starts at its bound, so nothing is acquired.
InitVideoInput ==
    /\ source = "webcam"
    /\ isPlaying = FALSE
    /\ videoError = "null"
    /\ srcObject = 0
    /\ streams = [i \in Streams |-> "none"]
    /\ nextStream = 0
    /\ videoSrc = ""
    /\ liveUrls = 0
    /\ videoPaused = TRUE
    /\ hasMetadata = FALSE
    /\ loading = FALSE
    /\ playPending = 0
    /\ playAborted = 0
    /\ gumExact = 0
    /\ gumIdeal = 0
    /\ lastGum = [mode |-> "none", outcome |-> "none"]
    /\ restartTimers = 0
    /\ cameraFacing = "user"
    /\ timerFacing = <<>>
    /\ gumReqs = NoRequests
    /\ rafRef = "null"
    /\ ticksPending = 0
    /\ encodes = 0
    /\ staleEncodes = 0
    /\ frameCountRef = 0
    /\ skipFrameCountRef = 0
    /\ lastCaptureTimeRef = 0
    /\ now = 0
    /\ emitted = 0
    /\ lastTick = "none"
    /\ lastBlob = "none"

InitCaptureIdle ==
    InitVideoInput /\ starts = MaxStarts /\ frameSkip = FRAME_SKIP /\ timeLimit = 0

\* The parts of the client a run does not exercise stay as constructed.
\* Everything outside the application state a run exercises, as constructed.
InitBaseIdle ==
    /\ InitWs
    /\ frameLimit = 0
    /\ sockLimit = 0
    /\ InitDelayIdle
    /\ InitResponseIdle
    /\ InitCaptureIdle

InitIdle == InitDelayIdle /\ InitResponseIdle /\ InitCaptureIdle /\ InitAppIdle

Init == InitWs /\ frameLimit = MaxFrames /\ sockLimit = MaxSockets /\ InitIdle

\* ------------------------------------------------------------ connect
\* connect(): clear the error, count the attempt, close and drop the socket
\* wsRef holds, create a new one (CONNECTING) with the four handlers.
Connect ==
    /\ nextSock < sockLimit
    /\ error' = "null"
    /\ connectionAttempts' = connectionAttempts + 1
    /\ nextSock' = nextSock + 1
    /\ sock' = [CloseSocket(sock, wsRef) EXCEPT
                  ![nextSock + 1] = [readyState |-> "CONNECTING",
                                     inflight |-> <<>>, opened |-> FALSE]]
    /\ wsRef' = nextSock + 1

\* useEffect(() => { connect(); ... }, [connect]) on mount.
Mount ==
    /\ mountState = "initial"
    /\ mountState' = "mounted"
    /\ Connect
    /\ UNCHANGED <<isConnected, closureConnected, lastResponse, queueSize, lastLatency,
                   frameQueueRef, processingRef, lastSentTimeRef, reads, timers,
                   nextFrame, lastPopped, pushRun, lastDelay, lastCloseOpened>>
    /\ UNCHANGED <<frameLimit, sockLimit, staleTimers, lastSent, otherVars>>

\* The effect's cleanup on unmount: close the socket and clear the reference.
Unmount ==
    /\ mountState = "mounted"
    /\ mountState' = "unmounted"
    /\ sock' = CloseSocket(sock, wsRef)
    /\ wsRef' = 0
    /\ UNCHANGED <<isConnected, closureConnected, error, lastResponse, queueSize,
                   lastLatency, frameQueueRef, processingRef, lastSentTimeRef,
                   connectionAttempts, nextSock, reads, timers, nextFrame, lastPopped,
                   pushRun, lastDelay, lastCloseOpened>>
    /\ UNCHANGED <<frameLimit, sockLimit, staleTimers, lastSent, otherVars>>

\* reconnect(): close and drop the current socket, then connect().
Reconnect ==
    /\ mountState = "mounted"
    /\ Connect
    /\ staleTimers' = timers
    /\ UNCHANGED <<mountState, isConnected, closureConnected, lastResponse, queueSize,
                   lastLatency, frameQueueRef, processingRef, lastSentTimeRef, reads,
                   timers, nextFrame, lastPopped, pushRun, lastDelay, lastCloseOpened>>
    /\ UNCHANGED <<frameLimit, sockLimit, lastSent, otherVars>>

\* React re-renders after setIsConnected: the callbacks handed out from then
\* on (queueFrame, and the processNextFrame it calls) see the new value.
Render ==
    /\ mountState = "mounted"
    /\ closureConnected # isConnected
    /\ closureConnected' = isConnected
    /\ UNCHANGED <<mountState, isConnected, error, lastResponse, queueSize, lastLatency,
                   wsRef, frameQueueRef, processingRef, lastSentTimeRef,
                   connectionAttempts, sock, nextSock, reads, timers, nextFrame,
                   lastPopped, pushRun, lastDelay, lastCloseOpened>>
    /\ UNCHANGED <<frameLimit, sockLimit, staleTimers, lastSent, otherVars>>

\* ------------------------------------------------------------ socket events
\* onopen of socket s (the socket becomes OPEN as the event fires).
OnOpen(s) ==
    /\ sock[s].readyState = "CONNECTING"
    /\ LET sk == [sock EXCEPT ![s].readyState = "OPEN", ![s].opened = TRUE]
           r  == ProcessNextFrame(MountIsConnected, processingRef, frameQueueRef,
                                  queueSize, lastSentTimeRef, reads, wsRef, sk)
       IN  /\ sock' = sk
           /\ isConnected' = TRUE
           /\ error' = "null"
           /\ connectionAttempts' = 0
           /\ processingRef' = r.proc
           /\ frameQueueRef' = r.q
           /\ queueSize' = r.qs
           /\ lastSentTimeRef' = r.lst
           /\ reads' = r.rds
           /\ lastPopped' = IF r.popped # 0 THEN r.popped ELSE lastPopped
           /\ pushRun' = IF r.popped # 0 THEN 0 ELSE pushRun
    /\ UNCHANGED <<mountState, closureConnected, lastResponse, lastLatency, wsRef,
                   nextSock, timers, nextFrame, lastDelay, lastCloseOpened>>
    /\ UNCHANGED <<frameLimit, sockLimit, staleTimers, lastSent, otherVars>>

\* Variant of SocketClosed: the handlers leave the pending flag as it is.
SocketClosed_KeepsFlag(s, failed) ==
    /\ sock[s].readyState \in {"CONNECTING", "OPEN", "CLOSING"}
    /\ sock' = [sock EXCEPT ![s].readyState = "CLOSED"]
    /\ error' = IF failed THEN "connect" ELSE error
    /\ isConnected' = FALSE
    /\ lastDelay' = ReconnectDelay(connectionAttempts)
    /\ lastCloseOpened' = sock[s].opened
    /\ timers' = timers + 1
    /\ UNCHANGED <<mountState, closureConnected, lastResponse, queueSize, lastLatency,
                   wsRef, frameQueueRef, processingRef, lastSentTimeRef,
                   connectionAttempts, nextSock, reads, nextFrame, lastPopped, pushRun>>
    /\ UNCHANGED <<frameLimit, sockLimit, staleTimers, lastSent, otherVars>>

\* Variant of SocketClosed: onclose also empties the frame queue.
SocketClosed_ClearsQueue(s, failed) ==
    /\ sock[s].readyState \in {"CONNECTING", "OPEN", "CLOSING"}
    /\ sock' = [sock EXCEPT ![s].readyState = "CLOSED"]
    /\ error' = IF failed THEN "connect" ELSE error
    /\ isConnected' = FALSE
    /\ processingRef' = FALSE
    /\ frameQueueRef' = <<>>
    /\ queueSize' = 0
    /\ lastDelay' = ReconnectDelay(connectionAttempts)
    /\ lastCloseOpened' = sock[s].opened
    /\ timers' = timers + 1
    /\ UNCHANGED <<mountState, closureConnected, lastResponse, lastLatency,
                   wsRef, lastSentTimeRef, connectionAttempts, nextSock,
                   reads, nextFrame, lastPopped, pushRun>>
    /\ UNCHANGED <<frameLimit, sockLimit, staleTimers, lastSent, otherVars>>

\* The close event of socket s; with failed, the error event fires first in
\* the same task (onerror, then onclose).  The socket is CLOSED when the
\* handlers run; what was sent on it and not answered stays unanswered.
SocketClosed(s, failed) ==
    /\ sock[s].readyState \in {"CONNECTING", "OPEN", "CLOSING"}
    /\ sock' = [sock EXCEPT ![s].readyState = "CLOSED"]
    /\ error' = IF failed THEN "connect" ELSE error
    /\ isConnected' = FALSE
    /\ processingRef' = FALSE
    /\ lastDelay' = ReconnectDelay(connectionAttempts)
    /\ lastCloseOpened' = sock[s].opened
    /\ timers' = timers + 1
    /\ UNCHANGED <<mountState, closureConnected, lastResponse, queueSize, lastLatency,
                   wsRef, frameQueueRef, lastSentTimeRef, connectionAttempts, nextSock,
                   reads, nextFrame, lastPopped, pushRun>>
    /\ UNCHANGED <<frameLimit, sockLimit, staleTimers, lastSent, otherVars>>

\* One of the pending reconnect timers is due: one set before the latest
\* reconnect() call (stale) or one set since.  Nothing ever clears a timer.
TimerDue(stale) == IF stale THEN staleTimers > 0 ELSE timers - staleTimers > 0

\* The reconnect timer set by onclose fires: connect() only if there is no
\* socket or the current one is CLOSED.
TimerConnect(stale) ==
    /\ TimerDue(stale)
    /\ NoLiveSocket(wsRef, sock)
    /\ timers' = timers - 1
    /\ staleTimers' = IF stale THEN staleTimers - 1 ELSE staleTimers
    /\ Connect
    /\ UNCHANGED <<mountState, isConnected, closureConnected, lastResponse, queueSize,
                   lastLatency, frameQueueRef, processingRef, lastSentTimeRef, reads,
                   nextFrame, lastPopped, pushRun, lastDelay, lastCloseOpened>>
    /\ UNCHANGED <<frameLimit, sockLimit, lastSent, otherVars>>

TimerSkip(stale) ==
    /\ TimerDue(stale)
    /\ ~NoLiveSocket(wsRef, sock)
    /\ timers' = timers - 1
    /\ staleTimers' = IF stale THEN staleTimers - 1 ELSE staleTimers
    /\ UNCHANGED <<mountState, isConnected, closureConnected, error, lastResponse,
                   queueSize, lastLatency, wsRef, frameQueueRef, processingRef,
                   lastSentTimeRef, connectionAttempts, sock, nextSock, reads, nextFrame,
                   lastPopped, pushRun, lastDelay, lastCloseOpened>>
    /\ UNCHANGED <<frameLimit, sockLimit, lastSent, otherVars>>

\* onmessage of socket s: the service answers the oldest frame it was sent
\* on s with a payload of the given kind.
OnMessage(s, kind) ==
    /\ sock[s].readyState \in {"OPEN", "CLOSING"}
    /\ sock[s].inflight # <<>>
    /\ LET f    == Head(sock[s].inflight)
           sk   == [sock EXCEPT ![s].inflight = Tail(@)]
           lst1 == 0
           r    == IF JsonParses(kind)
                   THEN ProcessNextFrame(MountIsConnected, FALSE, frameQueueRef,
                                         queueSize, lst1, reads, wsRef, sk)
                   ELSE [proc |-> FALSE, q |-> frameQueueRef, qs |-> queueSize,
                         lst |-> lst1, rds |-> reads, popped |-> 0]
       IN  /\ sock' = sk
           /\ lastLatency' = IF lastSentTimeRef # 0 THEN <<lastSentTimeRef, f>>
                             ELSE lastLatency
           /\ lastResponse' = IF JsonParses(kind) THEN f ELSE lastResponse
           /\ processingRef' = r.proc
           /\ frameQueueRef' = r.q
           /\ queueSize' = r.qs
           /\ lastSentTimeRef' = r.lst
           /\ reads' = r.rds
           /\ lastPopped' = IF r.popped # 0 THEN r.popped ELSE lastPopped
           /\ pushRun' = IF r.popped # 0 THEN 0 ELSE pushRun
    /\ UNCHANGED <<mountState, isConnected, closureConnected, error, wsRef,
                   connectionAttempts, nextSock, timers, nextFrame, lastDelay,
                   lastCloseOpened>>
    /\ UNCHANGED <<frameLimit, sockLimit, staleTimers, lastSent, otherVars>>

\* The value of lastResponse after a parsed message that answers no frame.
UnsolicitedPayload == -1

\* onmessage of socket s when the service sends a message that answers no
\* frame (a reply to the connection test bytes of onopen, a broadcast): the
\* handler is the same, no frame leaves the frames in flight.
UnsolicitedMessage(s, kind) ==
    /\ sock[s].readyState \in {"OPEN", "CLOSING"}
    /\ sock[s].opened
    /\ LET lst1 == 0
           r    == IF JsonParses(kind)
                   THEN ProcessNextFrame(MountIsConnected, FALSE, frameQueueRef,
                                         queueSize, lst1, reads, wsRef, sock)
                   ELSE [proc |-> FALSE, q |-> frameQueueRef, qs |-> queueSize,
                         lst |-> lst1, rds |-> reads, popped |-> 0]
       IN  /\ lastLatency' = IF lastSentTimeRef # 0 THEN <<lastSentTimeRef, 0>>
                             ELSE lastLatency
           /\ lastResponse' = IF JsonParses(kind) THEN UnsolicitedPayload
                              ELSE lastResponse
           /\ processingRef' = r.proc
           /\ frameQueueRef' = r.q
           /\ queueSize' = r.qs
           /\ lastSentTimeRef' = r.lst
           /\ reads' = r.rds
           /\ lastPopped' = IF r.popped # 0 THEN r.popped ELSE lastPopped
           /\ pushRun' = IF r.popped # 0 THEN 0 ELSE pushRun
    /\ UNCHANGED <<mountState, isConnected, closureConnected, error, wsRef,
                   connectionAttempts, nextSock, timers, nextFrame, lastDelay,
                   lastCloseOpened, sock>>
    /\ UNCHANGED <<frameLimit, sockLimit, staleTimers, lastSent, otherVars>>

\* ------------------------------------------------------------ frames
\* queueFrame(frameBlob), called on the callback of the latest render.
QueueFrame ==
    /\ mountState = "mounted"
    /\ nextFrame <= frameLimit
    /\ LET q2 == Append(DropOldest(frameQueueRef), nextFrame)
           r  == IF ~processingRef /\ closureConnected
                 THEN ProcessNextFrame(closureConnected, processingRef, q2, Len(q2),
                                       lastSentTimeRef, reads, wsRef, sock)
                 ELSE [proc |-> processingRef, q |-> q2, qs |-> Len(q2),
                       lst |-> lastSentTimeRef, rds |-> reads, popped |-> 0]
       IN  /\ nextFrame' = nextFrame + 1
           /\ processingRef' = r.proc
           /\ frameQueueRef' = r.q
           /\ queueSize' = r.qs
           /\ lastSentTimeRef' = r.lst
           /\ reads' = r.rds
           /\ lastPopped' = IF r.popped # 0 THEN r.popped ELSE lastPopped
           /\ pushRun' = IF r.popped # 0 THEN 0 ELSE pushRun + 1
    /\ UNCHANGED <<mountState, isConnected, closureConnected, error, lastResponse,
                   lastLatency, wsRef, connectionAttempts, sock, nextSock, timers,
                   lastDelay, lastCloseOpened>>
    /\ UNCHANGED <<frameLimit, sockLimit, staleTimers, lastSent, otherVars>>

\* Variant of ReaderLoad: clears the pending flag as soon as the frame is sent.
ReaderLoad_ClearsAfterSend(f) ==
    /\ f \in reads
    /\ reads' = reads \ {f}
    /\ processingRef' = FALSE
    /\ IF IsOpen(wsRef, sock)
       THEN /\ sock' = [sock EXCEPT ![wsRef].inflight = Append(@, f)]
            /\ lastSent' = f
            /\ UNCHANGED lastSentTimeRef
       ELSE /\ lastSentTimeRef' = 0
            /\ UNCHANGED <<sock, lastSent>>
    /\ UNCHANGED <<mountState, isConnected, closureConnected, error, lastResponse,
                   queueSize, lastLatency, wsRef, frameQueueRef, connectionAttempts,
                   nextSock, timers, nextFrame, lastPopped, pushRun, lastDelay,
                   lastCloseOpened>>
    /\ UNCHANGED <<frameLimit, sockLimit, staleTimers, otherVars>>

\* reader.onload for frame f: send it on whatever socket wsRef holds now, if
\* that socket is OPEN; otherwise give the frame up and clear the flag.
ReaderLoad(f) ==
    /\ f \in reads
    /\ reads' = reads \ {f}
    /\ IF IsOpen(wsRef, sock)
       THEN /\ sock' = [sock EXCEPT ![wsRef].inflight = Append(@, f)]
            /\ lastSent' = f
            /\ UNCHANGED <<processingRef, lastSentTimeRef>>
       ELSE /\ processingRef' = FALSE
            /\ lastSentTimeRef' = 0
            /\ UNCHANGED <<sock, lastSent>>
    /\ UNCHANGED <<mountState, isConnected, closureConnected, error, lastResponse,
                   queueSize, lastLatency, wsRef, frameQueueRef, connectionAttempts,
                   nextSock, timers, nextFrame, lastPopped, pushRun, lastDelay,
                   lastCloseOpened>>
    /\ UNCHANGED <<frameLimit, sockLimit, staleTimers, otherVars>>

\* reader.onerror for frame f: the read failed, the frame is given up.
ReaderError(f) ==
    /\ f \in reads
    /\ reads' = reads \ {f}
    /\ processingRef' = FALSE
    /\ lastSentTimeRef' = 0
    /\ UNCHANGED <<mountState, isConnected, closureConnected, error, lastResponse,
                   queueSize, lastLatency, wsRef, frameQueueRef, connectionAttempts,
                   sock, nextSock, timers, nextFrame, lastPopped, pushRun, lastDelay,
                   lastCloseOpened>>
    /\ UNCHANGED <<frameLimit, sockLimit, staleTimers, lastSent, otherVars>>

\* ------------------------------------------------------------ specification
Next ==
    \/ Mount
    \/ Unmount
    \/ Reconnect
    \/ Render
    \/ \E s \in Sockets : OnOpen(s)
    \/ \E s \in Sockets, failed \in BOOLEAN : SocketClosed(s, failed)
    \/ \E stale \in BOOLEAN : TimerConnect(stale)
    \/ \E stale \in BOOLEAN : TimerSkip(stale)
    \/ \E s \in Sockets, kind \in PayloadKinds : OnMessage(s, kind)
    \/ QueueFrame
    \/ \E f \in reads : ReaderLoad(f)
    \/ \E f \in reads : ReaderError(f)

Spec == Init /\ [][Next]_vars

\* handleFrame of App (App.tsx lines 188-192), reached through
\* frameCallbackRef.current of VideoInput: the callback of the latest render
\* calls queueFrame if that render saw isConnected, and drops the frame
\* otherwise.
HandleFrame ==
    IF closureConnected
    THEN QueueFrame
    ELSE /\ mountState = "mounted"
         /\ nextFrame <= frameLimit
         /\ nextFrame' = nextFrame + 1
         /\ UNCHANGED <<mountState, isConnected, closureConnected, error, lastResponse,
                        queueSize, lastLatency, wsRef, frameQueueRef, processingRef,
                        lastSentTimeRef, connectionAttempts, sock, nextSock, reads,
                        timers, lastPopped, pushRun, lastDelay, lastCloseOpened>>
         /\ UNCHANGED <<frameLimit, sockLimit, staleTimers, lastSent, otherVars>>

\* The hook as App uses it: frames arrive through handleFrame only.
NextApp ==
    \/ Mount
    \/ Unmount
    \/ Reconnect
    \/ Render
    \/ \E s \in Sockets : OnOpen(s)
    \/ \E s \in Sockets, failed \in BOOLEAN : SocketClosed(s, failed)
    \/ \E stale \in BOOLEAN : TimerConnect(stale)
    \/ \E stale \in BOOLEAN : TimerSkip(stale)
    \/ \E s \in Sockets, kind \in PayloadKinds : OnMessage(s, kind)
    \/ HandleFrame
    \/ \E f \in reads : ReaderLoad(f)
    \/ \E f \in reads : ReaderError(f)

SpecApp == Init /\ [][NextApp]_vars

\* The same program with a service that also sends messages answering no
\* frame.
NextLatency ==
    \/ Next
    \/ \E s \in Sockets, kind \in PayloadKinds : UnsolicitedMessage(s, kind)

SpecLatency == Init /\ [][NextLatency]_vars

\* One connection from mount to its close, no reconnect: the frame source
\* offers more frames than the queue holds.
InitOneConn ==
    InitWs /\ frameLimit = MaxFramesOneConn /\ sockLimit = MaxSockets /\ InitIdle

NextOneConn ==
    \/ Mount
    \/ Render
    \/ \E s \in Sockets : OnOpen(s)
    \/ \E s \in Sockets, failed \in BOOLEAN : SocketClosed(s, failed)
    \/ \E s \in Sockets, kind \in PayloadKinds : OnMessage(s, kind)
    \/ QueueFrame
    \/ \E f \in reads : ReaderLoad(f)
    \/ \E f \in reads : ReaderError(f)

SpecOneConn == InitOneConn /\ [][NextOneConn]_vars

\* Connection management alone: no frames are offered, so the run can afford
\* one more socket.
InitRetry == InitWs /\ frameLimit = 0 /\ sockLimit = MaxSocketsRetry /\ InitIdle

NextRetry ==
    \/ Mount
    \/ Unmount
    \/ Reconnect
    \/ Render
    \/ \E s \in Sockets : OnOpen(s)
    \/ \E s \in Sockets, failed \in BOOLEAN : SocketClosed(s, failed)
    \/ \E stale \in BOOLEAN : TimerConnect(stale)
    \/ \E stale \in BOOLEAN : TimerSkip(stale)

SpecRetry == InitRetry /\ [][NextRetry]_vars

\* The reconnect delay as a function: it is evaluated for two attempt counts.
InitDelay ==
    /\ InitWs
    /\ frameLimit = 0
    /\ sockLimit = 0
    /\ dA \in 0..MaxAttempts
    /\ dB \in 0..MaxAttempts
    /\ dOutA = -1
    /\ dOutB = -1
    /\ InitResponseIdle
    /\ InitCaptureIdle
    /\ InitAppIdle

ComputeDelay ==
    /\ dOutA = -1
    /\ dOutA' = ReconnectDelay(dA)
    /\ dOutB' = ReconnectDelay(dB)
    /\ UNCHANGED <<dA, dB, wsVars, responseVars, captureVars, appVars>>

NextDelay == ComputeDelay

SpecDelay == InitDelay /\ [][NextDelay]_vars

\* ------------------------------------------------------------ response path
\* One message from the service, from the wire to the predictions state.
\* Confidence values are in hundredths.
CoordValues == {JNum(n) : n \in 0..MaxCoord} \cup {JStr("1"), JStr("abc"), JNull}
NameValues == {JStr("Alice"), JNull}
ConfValues == {JNum(92), JNum(150)}

\* Arrays the service may send under a track identifier: a prefix of
\* [name, confidence, x1, y1, x2, y2].
FullArrays ==
    {<<nm, cf, a, b, c, d>> : nm \in NameValues, cf \in ConfValues,
                              a \in CoordValues, b \in CoordValues,
                              c \in CoordValues, d \in CoordValues}
EntryLengths == {0, 4, 5, 6}
SixChars == <<JStr("a"), JStr("b"), JStr("1"), JStr("2"), JStr("1"), JStr("2")>>
MainEntries ==
    {ArrayEntry(SubSeq(full, 1, len)) : full \in FullArrays, len \in EntryLengths}
        \cup {NonArrayEntry(<<>>), NonArrayEntry(SixChars)}

\* What may accompany the main entry in the same payload.
ExampleArray == <<JStr("Alice"), JNum(92), JNum(50), JNum(80), JNum(10), JNum(200)>>
Companions ==
    {ArrayEntry(ExampleArray \o <<JNull>>),
     ArrayEntry(SubSeq(ExampleArray, 1, 4)),
     ArrayEntry(<<JStr("Bob"), JNum(50), JNum(1), JStr("abc"), JNum(2), JNum(2)>>),
     NonArrayEntry(<<>>)}

Body(entries) == [hasPredictions |-> TRUE, predictions |-> entries]
NoPredictions == [hasPredictions |-> FALSE, predictions |-> <<>>]
ExampleBody == Body(<<[key |-> "7", val |-> ArrayEntry(ExampleArray)]>>)

\* Object.entries lists integer-like keys in ascending order: "7", then "12".
Bodies ==
    {Body(<<[key |-> "7", val |-> m]>>) : m \in MainEntries}
        \cup {Body(<<[key |-> "7", val |-> m], [key |-> "12", val |-> c]>>) :
                  m \in MainEntries, c \in Companions}
        \cup {ExampleBody, NoPredictions, Body(<<>>)}

InitResponse ==
    /\ InitWs
    /\ frameLimit = 0
    /\ sockLimit = 0
    /\ InitDelayIdle
    /\ respPc = "wire"
    /\ wireKind \in PayloadKinds
    /\ wireBody \in (IF wireKind = "garbled" THEN {NoPredictions} ELSE Bodies)
    /\ responseData = [ok |-> FALSE, data |-> NoPredictions]
    /\ predictions = <<>>
    /\ InitCaptureIdle
    /\ InitAppIdle

\* onmessage, lines 97-124: JSON.parse(event.data), then setLastResponse.
DecodeMessage ==
    /\ respPc = "wire"
    /\ respPc' = "decoded"
    /\ responseData' = IF JsonParses(wireKind)
                       THEN [ok |-> TRUE, data |-> wireBody]
                       ELSE responseData
    /\ UNCHANGED <<wireKind, wireBody, predictions, wsVars, delayVars, captureVars,
                   appVars>>

\* The lastResponse effect of App: setPredictions(processWebSocketResponse(...)).
HandleResponse ==
    /\ respPc = "decoded"
    /\ responseData.ok
    /\ respPc' = "processed"
    /\ predictions' = ProcessWebSocketResponse(responseData.data)
    /\ UNCHANGED <<wireKind, wireBody, responseData, wsVars, delayVars, captureVars,
                   appVars>>

NextResponse == DecodeMessage \/ HandleResponse

SpecResponse == InitResponse /\ [][NextResponse]_vars

\* ------------------------------------------------------------ processWebSocketResponse as a function
\* Every argument: null, an object without predictions or with no entries,
\* and objects with well-formed and malformed entries.
Responses == {NullResponse} \cup {ObjectResponse(b) : b \in Bodies}

InitProcess ==
    /\ InitBaseIdle
    /\ procPc = "called"
    /\ procInput \in Responses
    /\ procOut = Returned(<<>>)
    /\ InitExitIdle
    /\ InitOverlayIdle
    /\ InitSizeIdle

CallProcess ==
    /\ procPc = "called"
    /\ procPc' = "done"
    /\ procOut' = ProcessCall(procInput)
    /\ UNCHANGED <<procInput, exitVars, overlayVars, wsVars, delayVars, responseVars,
                   captureVars, sizeVars>>

NextProcess == CallProcess

SpecProcess == InitProcess /\ [][NextProcess]_vars

\* ------------------------------------------------------------ exit history
\* The exit log of App under push ingests (responses with exit_ids), pulls
\* of /get_all_exits and stop-triggered pulls of /get_exits.  Both endpoints
\* answer with [name, ISO timestamp] pairs.
NoIngest == [kind |-> "none", batch |-> <<>>, offered |-> <<>>, added |-> FALSE]

\* A stretch of the service's history: size pairs from second lo on, in
\* ascending or descending order.
Window(lo, size, asc) ==
    [i \in 1..size |-> PairItem("Alice", IF asc THEN lo + i - 1 ELSE lo + size - i)]
PullStarts == {1, 3}
PullSizes == {2, PULL_CAP + MaxOver}
PullBatches ==
    {Window(lo, size, asc) : lo \in PullStarts, size \in PullSizes, asc \in BOOLEAN}
        \cup {<<>>, <<PairItem("Alice", 2), PairItem("Alice", 2)>>}
StopBatches ==
    {<<>>, <<PairItem("Alice", 1)>>, <<PairItem("Bob", 2), PairItem("Alice", 1)>>}
ExitIds == {<<>>, <<NameItem("Alice")>>, <<NameItem("Bob"), NameItem("Alice")>>}
ClockTicks == {0, 1}

InitExitLog ==
    /\ exitLog = <<>>
    /\ wallClock = ClockStart
    /\ lastIngest = NoIngest
    /\ ingests = 0

InitExit ==
    /\ InitBaseIdle
    /\ InitProcIdle
    /\ InitExitLog
    /\ ingestLimit = MaxIngests
    /\ InitOverlayIdle
    /\ InitSizeIdle

\* The lastResponse effect, lines 152-184, for a response with these exit_ids.
PushIngest(ids, tick) ==
    /\ ingests < ingestLimit
    /\ ingests' = ingests + 1
    /\ wallClock' = wallClock + tick
    /\ IF Len(ids) > 0
       THEN /\ exitLog' = LiveUpdater(exitLog, ids, wallClock')
            /\ lastIngest' = [kind |-> "push", batch |-> ids,
                              offered |-> <<LiveEntry(ids, wallClock')>>,
                              added |-> EntryKey(LiveEntry(ids, wallClock'))
                                            \notin ExistingEntries(exitLog)]
       ELSE /\ exitLog' = exitLog
            /\ lastIngest' = [kind |-> "push", batch |-> ids, offered |-> <<>>,
                              added |-> FALSE]
    /\ UNCHANGED <<ingestLimit, procVars, overlayVars, wsVars, delayVars, responseVars,
                   captureVars, sizeVars>>

\* fetchAllExits, lines 51-112, when the response has arrived: ok with an
\* exits array, or not (HTTP error, no array).  It does not read the clock.
PullIngest(ok, pairs) ==
    /\ ingests < ingestLimit
    /\ ingests' = ingests + 1
    /\ wallClock' = wallClock
    /\ IF ok
       THEN /\ exitLog' = FetchAllUpdater(exitLog, pairs)
            /\ lastIngest' = [kind |-> "pull", batch |-> pairs,
                              offered |-> [i \in DOMAIN pairs |-> PulledEntry(pairs[i])],
                              added |-> NewEntries(pairs, ExistingEntries(exitLog)) # <<>>]
       ELSE /\ pairs = <<>>
            /\ exitLog' = exitLog
            /\ lastIngest' = [kind |-> "failed", batch |-> <<>>, offered |-> <<>>,
                              added |-> FALSE]
    /\ UNCHANGED <<ingestLimit, procVars, overlayVars, wsVars, delayVars, responseVars,
                   captureVars, sizeVars>>

\* handleVideoStop, lines 195-247, when the response has arrived.
StopIngest(pairs, tick) ==
    /\ ingests < ingestLimit
    /\ ingests' = ingests + 1
    /\ wallClock' = wallClock + tick
    /\ IF Len(pairs) > 0
       THEN /\ exitLog' = LiveUpdater(exitLog, pairs, wallClock')
            /\ lastIngest' = [kind |-> "stop", batch |-> pairs,
                              offered |-> <<LiveEntry(pairs, wallClock')>>,
                              added |-> EntryKey(LiveEntry(pairs, wallClock'))
                                            \notin ExistingEntries(exitLog)]
       ELSE /\ exitLog' = exitLog
            /\ lastIngest' = [kind |-> "stop", batch |-> pairs, offered |-> <<>>,
                              added |-> FALSE]
    /\ UNCHANGED <<ingestLimit, procVars, overlayVars, wsVars, delayVars, responseVars,
                   captureVars, sizeVars>>

NextExit ==
    \/ \E ids \in ExitIds, tick \in ClockTicks : PushIngest(ids, tick)
    \/ \E ok \in BOOLEAN, pairs \in PullBatches : PullIngest(ok, pairs)
    \/ \E pairs \in StopBatches, tick \in ClockTicks : StopIngest(pairs, tick)

SpecExit == InitExit /\ [][NextExit]_vars

\* ------------------------------------------------------------ overlay renderer
\* CanvasOverlay over a video element whose intrinsic size and displayed
\* rectangle change, with predictions arriving from App.
NoSize == [w |-> 0, h |-> 0]
IntrinsicSizes == {[w |-> 1280, h |-> 720], [w |-> 640, h |-> 480]}
DisplayedSizes == {[w |-> 640, h |-> 360], [w |-> 320, h |-> 240], [w |-> 1280, h |-> 720]}
BoxCoords == {0, 100, 200, 1400}
MeasuredWidths == {90, 400}
\* Every box of the coordinates with the label of a known short name, and
\* the boxes ending at the far corner with every label.
Boxes ==
    {[x1 |-> a, y1 |-> b, x2 |-> c, y2 |-> d, unknown |-> FALSE, measured |-> 90] :
         a \in BoxCoords, b \in BoxCoords, c \in BoxCoords, d \in BoxCoords}
    \cup
    {[x1 |-> a, y1 |-> b, x2 |-> 1400, y2 |-> 1400, unknown |-> u, measured |-> m] :
         a \in BoxCoords, b \in {0, 100}, u \in BOOLEAN, m \in MeasuredWidths}
NormalizedBoxes == {b \in Boxes : b.x1 <= b.x2 /\ b.y1 <= b.y2}
ExampleBox ==
    [x1 |-> 100, y1 |-> 100, x2 |-> 200, y2 |-> 200, unknown |-> FALSE, measured |-> 90]

InitOverlayState ==
    /\ ovVideo = NoSize
    /\ ovRect = [w |-> 640, h |-> 360]
    /\ scaleFactor = [x |-> <<1, 1>>, y |-> <<1, 1>>]
    /\ videoRect = [set |-> FALSE, rect |-> NoSize, video |-> NoSize]
    /\ ovCanvas = [w |-> 640, h |-> 480]
    /\ ovPredictions = <<>>
    /\ drawn = NothingDrawn
    /\ lastMeasure = "none"

InitOverlay ==
    /\ InitBaseIdle
    /\ InitProcIdle
    /\ InitExitIdle
    /\ InitOverlayState
    /\ overlayOn = TRUE
    /\ InitSizeIdle

\* The video element gets media of this intrinsic size.  The listeners
\* added at lines 63-68 are the updateCanvasDimensions of the render in
\* which videoElement was still null, which returns at line 102; the
\* measurement is made by the observers and the interval of lines 142-167.
VideoLoaded(size) ==
    /\ overlayOn
    /\ ovVideo # size
    /\ ovVideo' = size
    /\ UNCHANGED <<ovRect, scaleFactor, videoRect, ovCanvas, ovPredictions, drawn, overlayOn, lastMeasure>>
    /\ UNCHANGED <<procVars, exitVars, wsVars, delayVars, responseVars, captureVars, sizeVars>>

\* The layout changes the displayed rectangle of the video; nothing of the
\* overlay runs yet.
Resized(rect) ==
    /\ overlayOn
    /\ ovRect # rect
    /\ ovRect' = rect
    /\ UNCHANGED <<ovVideo, scaleFactor, videoRect, ovCanvas, ovPredictions, drawn, overlayOn, lastMeasure>>
    /\ UNCHANGED <<procVars, exitVars, wsVars, delayVars, responseVars, captureVars, sizeVars>>

\* Variant of UpdateCanvasDimensions without the test of line 108: it
\* measures whatever the intrinsic size is.
UpdateCanvasDimensions_NoReadyCheck ==
    /\ overlayOn
    /\ videoRect' = [set |-> TRUE, rect |-> ovRect, video |-> ovVideo]
    /\ ovCanvas' = ovRect
    /\ scaleFactor' = ScaleFactorOf(ovRect, ovVideo)
    /\ drawn' = DrawEffect(ovPredictions, scaleFactor', TRUE, ovCanvas')
    /\ lastMeasure' = IF ovVideo.w > 0 /\ ovVideo.h > 0 THEN "done" ELSE "skipped"
    /\ UNCHANGED <<ovVideo, ovRect, ovPredictions, overlayOn>>
    /\ UNCHANGED <<procVars, exitVars, wsVars, delayVars, responseVars, captureVars, sizeVars>>

\* updateCanvasDimensions, lines 101-139 (resize observer, window resize,
\* 1 s interval), followed by the draw effect its state updates trigger.
UpdateCanvasDimensions ==
    /\ overlayOn
    /\ IF ovVideo.w > 0 /\ ovVideo.h > 0
       THEN /\ videoRect' = [set |-> TRUE, rect |-> ovRect, video |-> ovVideo]
            /\ ovCanvas' = ovRect
            /\ scaleFactor' = ScaleFactorOf(ovRect, ovVideo)
            /\ drawn' = DrawEffect(ovPredictions, scaleFactor', TRUE, ovCanvas')
            /\ lastMeasure' = "done"
       ELSE /\ lastMeasure' = "skipped"
            /\ UNCHANGED <<videoRect, ovCanvas, scaleFactor, drawn>>
    /\ UNCHANGED <<ovVideo, ovRect, ovPredictions, overlayOn>>
    /\ UNCHANGED <<procVars, exitVars, wsVars, delayVars, responseVars, captureVars, sizeVars>>

\* App passes new predictions; the draw effect runs.
NewPredictions(preds) ==
    /\ overlayOn
    /\ ovPredictions # preds
    /\ ovPredictions' = preds
    /\ drawn' = DrawEffect(preds, scaleFactor, videoRect.set, ovCanvas)
    /\ UNCHANGED <<ovVideo, ovRect, scaleFactor, videoRect, ovCanvas, overlayOn, lastMeasure>>
    /\ UNCHANGED <<procVars, exitVars, wsVars, delayVars, responseVars, captureVars, sizeVars>>

NextOverlay ==
    \/ \E size \in IntrinsicSizes : VideoLoaded(size)
    \/ \E rect \in DisplayedSizes : Resized(rect)
    \/ UpdateCanvasDimensions
    \/ \E preds \in {<<>>} \cup {<<b>> : b \in NormalizedBoxes} : NewPredictions(preds)

SpecOverlay == InitOverlay /\ [][NextOverlay]_vars

\* ------------------------------------------------------------ capture size
\* captureFrame, lines 159-176: the size of the canvas a frame is drawn to.
MAX_DIMENSION == 1920

\* Fraction bits of an IEEE-754 double, the number type of the source.
MantissaBits == 52

\* x doubled n times, modulo m.
RECURSIVE DoubleMod(_, _, _)
DoubleMod(x, n, m) == IF n = 0 THEN x ELSE DoubleMod((2 * x) % m, n - 1, m)

\* The least k >= from with MAX_DIMENSION * 2^k >= larger: the quotient
\* MAX_DIMENSION / larger lies in [2^-k, 2^(1-k)).
RECURSIVE RatioExponent(_, _)
RatioExponent(larger, from) ==
    IF MAX_DIMENSION * Pow(2, from) >= larger THEN from
    ELSE RatioExponent(larger, from + 1)

RECURSIVE Log2Floor(_)
Log2Floor(q) == IF q < 2 THEN 0 ELSE 1 + Log2Floor(q \div 2)

\* Math.floor(other * (MAX_DIMENSION / larger)) for larger > MAX_DIMENSION,
\* as doubles compute it.  The quotient is rounded to 53 significant bits:
\* with k its exponent and r = (MAX_DIMENSION * 2^(52+k)) mod larger, it is
\* rounded down by r / (larger * 2^(52+k)) when 2r < larger and up
\* otherwise.  The product is rounded again.  When larger does not divide
\* other * MAX_DIMENSION the exact product is at least 1/larger away from an
\* integer and both roundings are far smaller, so the floor is that of the
\* exact product q.  When it divides, the exact product is the integer q and
\* the computed one is q - other * r / (larger * 2^(52+k)) if the quotient was
\* rounded down; it rounds back to q unless that distance exceeds half the
\* spacing of doubles just below q (2^(a-52), a = floor(log2 q), halved when
\* q is a power of two), and then the floor is q - 1.
ScaledFloor(other, larger) ==
    LET k == RatioExponent(larger, 1)
        r == DoubleMod(MAX_DIMENSION % larger, MantissaBits + k, larger)
        q == (other * MAX_DIMENSION) \div larger
        f == (other * MAX_DIMENSION) % larger
        a == Log2Floor(q)
        c == IF Pow(2, a) = q THEN 4 ELSE 2
    IN  IF f # 0 \/ r = 0 \/ 2 * r >= larger THEN q
        ELSE IF c * other * r > larger * Pow(2, a + k) THEN q - 1
        ELSE q

\* Lines 160-172: width and height after the scale-down.
CaptureSize(video) ==
    IF video.w > MAX_DIMENSION \/ video.h > MAX_DIMENSION
    THEN IF video.w > video.h
         THEN [w |-> MAX_DIMENSION, h |-> ScaledFloor(video.h, video.w)]
         ELSE [w |-> ScaledFloor(video.w, video.h), h |-> MAX_DIMENSION]
    ELSE video

\* Source dimensions: sizes of common cameras and files, sizes with an exact
\* 1:1, 2:1 or 4:1 aspect ratio, and the sizes around MAX_DIMENSION.
MaxExcess == 1

SourceDimensions ==
    {537, 640, 1074, 1080, 2148, 2160, 3840}
        \cup ((MAX_DIMENSION - 1) .. (MAX_DIMENSION + MaxExcess))

\* captureFrame reaches line 160 with a playing video of some size.
InitScale ==
    /\ InitBaseIdle
    /\ InitProcIdle
    /\ InitExitIdle
    /\ InitOverlayIdle
    /\ videoDims \in [w : SourceDimensions, h : SourceDimensions]
    /\ canvasDims = NoDims

\* Lines 160-176: canvas.width = width; canvas.height = height.
SetCanvasDimensions ==
    /\ videoDims # NoDims
    /\ canvasDims = NoDims
    /\ canvasDims' = CaptureSize(videoDims)
    /\ UNCHANGED <<videoDims, procVars, exitVars, overlayVars, wsVars, delayVars,
                   responseVars, captureVars>>

NextScale == SetCanvasDimensions

SpecScale == InitScale /\ [][NextScale]_vars

\* ------------------------------------------------------------ frame source
\* VideoInput on a mobile device (the camera toggle is rendered).  Frames
\* handed to onFrame reach queueFrame through App.handleFrame.
nonCaptureVars == <<wsVars, delayVars, responseVars, appVars>>

\* fpsIntervalRef.current = 1000 / TARGET_FPS, in clock units.
FpsInterval == Resolution

\* Time between two display refreshes, in clock units: shorter than, equal
\* to and longer than the capture interval.
TickGaps == 1..(Resolution + 1)

GumErrors == {"OverconstrainedError", "NotAllowedError"}

\* The acquisition budget of the run covers the restarts already scheduled.
MayStart == starts + restartTimers < MaxStarts

\* stopVideoStream(): pause, stop the tracks of the attached stream and
\* detach it, revoke a blob URL, cancel the tick rafRef refers to, zero the
\* counters.  pause() and the emptied source settle pending play() promises
\* as rejected; no loadedmetadata follows.
StopVideoStream ==
    /\ videoPaused' = TRUE
    /\ streams' = IF srcObject # 0 THEN [streams EXCEPT ![srcObject] = "stopped"]
                  ELSE streams
    /\ srcObject' = 0
    /\ liveUrls' = IF videoSrc = "blob" THEN liveUrls - 1 ELSE liveUrls
    /\ videoSrc' = ""
    /\ hasMetadata' = FALSE
    /\ loading' = FALSE
    /\ playAborted' = playPending
    /\ ticksPending' = IF rafRef = "pending" THEN ticksPending - 1 ELSE ticksPending
    /\ rafRef' = "null"
    /\ frameCountRef' = 0
    /\ skipFrameCountRef' = 0
    /\ staleEncodes' = encodes

\* The body of startWebcam up to its first await: clear the error, stop
\* what is attached, request a stream with facingMode exact.
StartWebcamBody ==
    /\ videoError' = "null"
    /\ StopVideoStream
    /\ gumExact' = gumExact + 1
    /\ starts' = starts + 1

\* Start Camera button (rendered while !isPlaying and source is webcam).
StartWebcam ==
    /\ ~isPlaying
    /\ source = "webcam"
    /\ MayStart
    /\ StartWebcamBody
    /\ UNCHANGED <<source, isPlaying, nextStream, playPending, gumIdeal, lastGum,
                   restartTimers, encodes, lastCaptureTimeRef, now, emitted, frameSkip, timeLimit, lastTick, lastBlob>>
    /\ gumReqs' = AddRequest(gumReqs, "exact",
                          [facing |-> cameraFacing, wanted |-> cameraFacing])
    /\ UNCHANGED <<cameraFacing, timerFacing>>
    /\ UNCHANGED nonCaptureVars

\* Camera toggle button: toggleCamera(), then setTimeout(startWebcam, 500)
\* with the startWebcam of the render the click handler belongs to, whose
\* cameraFacing is the value before the flip.
ToggleCamera ==
    /\ source = "webcam"
    /\ MayStart
    /\ StopVideoStream
    /\ isPlaying' = FALSE
    /\ restartTimers' = restartTimers + 1
    /\ UNCHANGED <<source, videoError, nextStream, playPending, gumExact, gumIdeal,
                   lastGum, encodes, lastCaptureTimeRef, now, emitted, starts, frameSkip, timeLimit, lastTick, lastBlob>>
    /\ cameraFacing' = Flip(cameraFacing)
    /\ timerFacing' = Append(timerFacing, cameraFacing)
    /\ UNCHANGED gumReqs
    /\ UNCHANGED nonCaptureVars

\* The 500 ms timer of the camera toggle fires: startWebcam().
RestartTimer ==
    /\ restartTimers > 0
    /\ restartTimers' = restartTimers - 1
    /\ StartWebcamBody
    /\ UNCHANGED <<source, isPlaying, nextStream, playPending, gumIdeal, lastGum,
                   encodes, lastCaptureTimeRef, now, emitted, frameSkip, timeLimit, lastTick, lastBlob>>
    /\ timerFacing' = Tail(timerFacing)
    /\ gumReqs' = AddRequest(gumReqs, "exact",
                          [facing |-> Head(timerFacing), wanted |-> cameraFacing])
    /\ UNCHANGED cameraFacing
    /\ UNCHANGED nonCaptureVars

\* getUserMedia resolves: the stream is attached to the video element
\* (whatever was attached stays as it is) and the element loads it.
GumResolved(mode) ==
    /\ IF mode = "exact" THEN gumExact > 0 ELSE gumIdeal > 0
    /\ gumExact' = IF mode = "exact" THEN gumExact - 1 ELSE gumExact
    /\ gumIdeal' = IF mode = "ideal" THEN gumIdeal - 1 ELSE gumIdeal
    /\ lastGum' = [mode |-> mode, outcome |-> "stream"]
    /\ nextStream' = nextStream + 1
    /\ streams' = [streams EXCEPT ![nextStream + 1] = "live"]
    /\ srcObject' = nextStream + 1
    /\ videoPaused' = TRUE
    /\ hasMetadata' = FALSE
    /\ loading' = TRUE
    /\ playAborted' = playPending
    /\ UNCHANGED <<source, isPlaying, videoError, videoSrc, liveUrls, playPending,
                   restartTimers, rafRef, ticksPending, encodes, staleEncodes,
                   frameCountRef, skipFrameCountRef, lastCaptureTimeRef, now, emitted,
                   starts, frameSkip, timeLimit, lastTick, lastBlob>>
    /\ SettleRequest(mode, FALSE)
    /\ UNCHANGED <<cameraFacing, timerFacing>>
    /\ UNCHANGED nonCaptureVars

\* Variant of GumFailed: the relaxed request is made after any failure of
\* the exact request.
GumFailed_AlwaysRetries(mode, name) ==
    /\ IF mode = "exact" THEN gumExact > 0 ELSE gumIdeal > 0
    /\ lastGum' = [mode |-> mode, outcome |-> name]
    /\ IF mode = "exact"
       THEN /\ gumExact' = gumExact - 1
            /\ gumIdeal' = gumIdeal + 1
            /\ UNCHANGED videoError
       ELSE /\ gumExact' = gumExact
            /\ gumIdeal' = gumIdeal - 1
            /\ videoError' = "webcam"
    /\ UNCHANGED <<source, isPlaying, srcObject, streams, nextStream, videoSrc, liveUrls,
                   videoPaused, hasMetadata, loading, playPending, playAborted,
                   restartTimers, rafRef, ticksPending, encodes, staleEncodes,
                   frameCountRef, skipFrameCountRef, lastCaptureTimeRef, now, emitted,
                   starts, frameSkip, timeLimit, lastTick, lastBlob>>
    /\ SettleRequest(mode, mode = "exact")
    /\ UNCHANGED <<cameraFacing, timerFacing>>
    /\ UNCHANGED nonCaptureVars

\* getUserMedia rejects with an error of the given name.  An
\* OverconstrainedError of the exact request is answered with the ideal
\* request; every other failure sets the error.
GumFailed(mode, name) ==
    /\ IF mode = "exact" THEN gumExact > 0 ELSE gumIdeal > 0
    /\ lastGum' = [mode |-> mode, outcome |-> name]
    /\ IF mode = "exact" /\ name = "OverconstrainedError"
       THEN /\ gumExact' = gumExact - 1
            /\ gumIdeal' = gumIdeal + 1
            /\ UNCHANGED videoError
       ELSE /\ gumExact' = IF mode = "exact" THEN gumExact - 1 ELSE gumExact
            /\ gumIdeal' = IF mode = "ideal" THEN gumIdeal - 1 ELSE gumIdeal
            /\ videoError' = "webcam"
    /\ UNCHANGED <<source, isPlaying, srcObject, streams, nextStream, videoSrc, liveUrls,
                   videoPaused, hasMetadata, loading, playPending, playAborted,
                   restartTimers, rafRef, ticksPending, encodes, staleEncodes,
                   frameCountRef, skipFrameCountRef, lastCaptureTimeRef, now, emitted,
                   starts, frameSkip, timeLimit, lastTick, lastBlob>>
    /\ SettleRequest(mode, mode = "exact" /\ name = "OverconstrainedError")
    /\ UNCHANGED <<cameraFacing, timerFacing>>
    /\ UNCHANGED nonCaptureVars

\* onloadedmetadata: the dimensions are known; play() is called.
LoadedMetadata ==
    /\ loading
    /\ loading' = FALSE
    /\ hasMetadata' = TRUE
    /\ videoPaused' = FALSE
    /\ playPending' = playPending + 1
    /\ UNCHANGED <<source, isPlaying, videoError, srcObject, streams, nextStream, videoSrc,
                   liveUrls, playAborted, gumExact, gumIdeal, lastGum, restartTimers,
                   rafRef, ticksPending, encodes, staleEncodes, frameCountRef,
                   skipFrameCountRef, lastCaptureTimeRef, now, emitted, starts, frameSkip, timeLimit, lastTick, lastBlob>>
    /\ UNCHANGED <<nonCaptureVars, facingVars>>

\* play().then: setIsPlaying(true) and startCapturing(), which cancels the
\* tick rafRef refers to, zeroes the counters and requests a tick.
PlayResolved ==
    /\ playPending - playAborted > 0
    /\ playPending' = playPending - 1
    /\ isPlaying' = TRUE
    /\ ticksPending' = (IF rafRef = "pending" THEN ticksPending - 1 ELSE ticksPending) + 1
    /\ rafRef' = "pending"
    /\ frameCountRef' = 0
    /\ skipFrameCountRef' = 0
    /\ lastCaptureTimeRef' = now
    /\ UNCHANGED <<source, videoError, srcObject, streams, nextStream, videoSrc, liveUrls,
                   videoPaused, hasMetadata, loading, playAborted, gumExact, gumIdeal,
                   lastGum, restartTimers, encodes, staleEncodes, now, emitted, starts,
                   frameSkip, timeLimit, lastTick, lastBlob>>
    /\ UNCHANGED <<nonCaptureVars, facingVars>>

\* play().catch: the promise was rejected (aborted by a pause or a new load,
\* or refused by the browser).
PlayRejected(aborted) ==
    /\ IF aborted THEN playAborted > 0 ELSE playPending - playAborted > 0
    /\ playPending' = playPending - 1
    /\ playAborted' = IF aborted THEN playAborted - 1 ELSE playAborted
    /\ videoError' = "play"
    /\ UNCHANGED <<source, isPlaying, srcObject, streams, nextStream, videoSrc, liveUrls,
                   videoPaused, hasMetadata, loading, gumExact, gumIdeal, lastGum,
                   restartTimers, rafRef, ticksPending, encodes, staleEncodes,
                   frameCountRef, skipFrameCountRef, lastCaptureTimeRef, now, emitted,
                   starts, frameSkip, timeLimit, lastTick, lastBlob>>
    /\ UNCHANGED <<nonCaptureVars, facingVars>>

\* Stop button (rendered while isPlaying).
ClickStop ==
    /\ isPlaying
    /\ StopVideoStream
    /\ isPlaying' = FALSE
    /\ UNCHANGED <<source, videoError, nextStream, playPending, gumExact, gumIdeal,
                   lastGum, restartTimers, encodes, lastCaptureTimeRef, now, emitted,
                   starts, frameSkip, timeLimit, lastTick, lastBlob>>
    /\ UNCHANGED <<nonCaptureVars, facingVars>>

\* Source buttons: setSource(s); the [source] effect stops the stream and
\* clears isPlaying and the error.
SetSource(s) ==
    /\ s # source
    /\ source' = s
    /\ StopVideoStream
    /\ isPlaying' = FALSE
    /\ videoError' = "null"
    /\ UNCHANGED <<nextStream, playPending, gumExact, gumIdeal, lastGum, restartTimers,
                   encodes, lastCaptureTimeRef, now, emitted, starts, frameSkip, timeLimit, lastTick, lastBlob>>
    /\ UNCHANGED <<nonCaptureVars, facingVars>>

\* File input (rendered while !isPlaying and source is file).
HandleFileChange(isVideo) ==
    /\ ~isPlaying
    /\ source = "file"
    /\ MayStart
    /\ starts' = starts + 1
    /\ IF isVideo
       THEN /\ videoError' = "null"
            /\ liveUrls' = (IF videoSrc = "blob" THEN liveUrls - 1 ELSE liveUrls) + 1
            /\ videoSrc' = "blob"
            /\ videoPaused' = TRUE
            /\ hasMetadata' = FALSE
            /\ loading' = TRUE
            /\ playAborted' = playPending
       ELSE /\ videoError' = "file"
            /\ UNCHANGED <<liveUrls, videoSrc, videoPaused, hasMetadata, loading,
                           playAborted>>
    /\ UNCHANGED <<source, isPlaying, srcObject, streams, nextStream, playPending,
                   gumExact, gumIdeal, lastGum, restartTimers, rafRef, ticksPending,
                   encodes, staleEncodes, frameCountRef, skipFrameCountRef,
                   lastCaptureTimeRef, emitted, now, frameSkip, timeLimit, lastTick, lastBlob>>
    /\ UNCHANGED <<nonCaptureVars, facingVars>>

\* Variant of Paced: a tick is never too early.
Paced_Never(elapsed) == FALSE

\* elapsed < fpsIntervalRef.current
Paced(elapsed) == elapsed < FpsInterval

\* Variant of NextSkipCount: the counter is not reduced modulo N.
NextSkipCount_NoWrap(c, n) == c + 1

\* (skipFrameCountRef.current + 1) % FRAME_SKIP
NextSkipCount(c, n) == (c + 1) % n

\* The video has dimensions and is playing.
VideoReady == hasMetadata /\ ~videoPaused

\* captureFrame, run by a tick gap clock units after the previous event; the
\* tick is the one rafRef refers to or (orphan) one it no longer refers to.
Tick(gap, orphan) ==
    /\ now + gap <= timeLimit
    /\ IF orphan THEN ticksPending - (IF rafRef = "pending" THEN 1 ELSE 0) > 0
                 ELSE rafRef = "pending"
    /\ now' = now + gap
    /\ LET elapsed == (now + gap) - lastCaptureTimeRef
           skip    == NextSkipCount(skipFrameCountRef, frameSkip)
       IN  IF Paced(elapsed)
           THEN /\ rafRef' = "pending"
                /\ lastTick' = "early"
                /\ UNCHANGED <<ticksPending, lastCaptureTimeRef, frameCountRef,
                               skipFrameCountRef, encodes>>
           ELSE /\ lastCaptureTimeRef' = (now + gap) - (elapsed % FpsInterval)
                /\ IF ~VideoReady
                   THEN /\ rafRef' = "pending"
                        /\ lastTick' = "notReady"
                        /\ UNCHANGED <<ticksPending, frameCountRef, skipFrameCountRef,
                                       encodes>>
                   ELSE /\ frameCountRef' = frameCountRef + 1
                        /\ skipFrameCountRef' = skip
                        /\ IF skip = 0
                           THEN /\ encodes' = encodes + 1
                                /\ ticksPending' = ticksPending - 1
                                /\ rafRef' = IF orphan THEN rafRef ELSE "stale"
                                /\ lastTick' = "encoded"
                           ELSE /\ rafRef' = "pending"
                                /\ lastTick' = "skipped"
                                /\ UNCHANGED <<ticksPending, encodes>>
    /\ UNCHANGED <<source, isPlaying, videoError, srcObject, streams, nextStream, videoSrc,
                   liveUrls, videoPaused, hasMetadata, loading, playPending, playAborted,
                   gumExact, gumIdeal, lastGum, restartTimers, staleEncodes, emitted,
                   starts, frameSkip, timeLimit, lastBlob>>
    /\ UNCHANGED <<nonCaptureVars, facingVars>>

\* The toBlob callback if a null blob returned without requesting the next
\* tick.
EncodeDone_NullStops(stale, ok) ==
    /\ IF stale THEN staleEncodes > 0 ELSE encodes - staleEncodes > 0
    /\ encodes' = encodes - 1
    /\ staleEncodes' = IF stale THEN staleEncodes - 1 ELSE staleEncodes
    /\ emitted' = IF ok THEN emitted + 1 ELSE emitted
    /\ lastBlob' = IF ok THEN "blob" ELSE "null"
    /\ rafRef' = IF ok THEN "pending" ELSE rafRef
    /\ ticksPending' = IF ok THEN ticksPending + 1 ELSE ticksPending
    /\ UNCHANGED <<source, isPlaying, videoError, srcObject, streams, nextStream, videoSrc,
                   liveUrls, videoPaused, hasMetadata, loading, playPending, playAborted,
                   gumExact, gumIdeal, lastGum, restartTimers, frameCountRef,
                   skipFrameCountRef, lastCaptureTimeRef, now, starts, frameSkip, timeLimit, lastTick>>
    /\ UNCHANGED <<nonCaptureVars, facingVars>>

\* The toBlob callback: with a blob, hand it to onFrame; in either case
\* request the next tick.  stale: the encode began before the latest
\* stopVideoStream.
EncodeDone(stale, ok) ==
    /\ IF stale THEN staleEncodes > 0 ELSE encodes - staleEncodes > 0
    /\ encodes' = encodes - 1
    /\ staleEncodes' = IF stale THEN staleEncodes - 1 ELSE staleEncodes
    /\ emitted' = IF ok THEN emitted + 1 ELSE emitted
    /\ lastBlob' = IF ok THEN "blob" ELSE "null"
    /\ rafRef' = "pending"
    /\ ticksPending' = ticksPending + 1
    /\ UNCHANGED <<source, isPlaying, videoError, srcObject, streams, nextStream, videoSrc,
                   liveUrls, videoPaused, hasMetadata, loading, playPending, playAborted,
                   gumExact, gumIdeal, lastGum, restartTimers, frameCountRef,
                   skipFrameCountRef, lastCaptureTimeRef, now, starts, frameSkip, timeLimit, lastTick>>
    /\ UNCHANGED <<nonCaptureVars, facingVars>>

InitCapture ==
    /\ InitWs
    /\ frameLimit = 0
    /\ sockLimit = 0
    /\ InitDelayIdle
    /\ InitResponseIdle
    /\ InitVideoInput
    /\ starts = 0
    /\ frameSkip = FRAME_SKIP
    /\ timeLimit = MaxTime
    /\ InitAppIdle

NextCapture ==
    \/ StartWebcam
    \/ ToggleCamera
    \/ RestartTimer
    \/ \E mode \in GumModes : GumResolved(mode)
    \/ \E mode \in GumModes, name \in GumErrors : GumFailed(mode, name)
    \/ LoadedMetadata
    \/ PlayResolved
    \/ \E aborted \in BOOLEAN : PlayRejected(aborted)
    \/ ClickStop
    \/ \E s \in {"webcam", "file"} : SetSource(s)
    \/ \E isVideo \in BOOLEAN : HandleFileChange(isVideo)
    \/ \E gap \in TickGaps, orphan \in BOOLEAN : Tick(gap, orphan)
    \/ \E stale \in BOOLEAN, ok \in BOOLEAN : EncodeDone(stale, ok)

SpecCapture == InitCapture /\ [][NextCapture]_vars

\* One capture session from Start Camera to Stop, for every frame-skip
\* factor, over enough clock time for several emitted frames.
InitPacing ==
    /\ InitWs
    /\ frameLimit = 0
    /\ sockLimit = 0
    /\ InitDelayIdle
    /\ InitResponseIdle
    /\ InitVideoInput
    /\ starts = MaxStarts - 1
    /\ frameSkip \in 1..MaxSkip
    /\ timeLimit = MaxTimePacing
    /\ InitAppIdle

NextPacing ==
    \/ StartWebcam
    \/ \E mode \in GumModes : GumResolved(mode)
    \/ LoadedMetadata
    \/ PlayResolved
    \/ ClickStop
    \/ \E gap \in TickGaps, orphan \in BOOLEAN : Tick(gap, orphan)
    \/ \E stale \in BOOLEAN, ok \in BOOLEAN : EncodeDone(stale, ok)

SpecPacing == InitPacing /\ [][NextPacing]_vars

TypeOK ==
    /\ mountState \in {"initial", "mounted", "unmounted"}
    /\ wsRef \in 0..nextSock
    /\ reads \subseteq 1..frameLimit
    /\ timers \in 0..sockLimit
    /\ staleTimers \in 0..timers


\* ------------------------------------------------------------ claims
\* Frames popped whose read is pending, plus frames sent on s and unanswered.
Outstanding(s) == Cardinality(reads) + Len(sock[s].inflight)

\* The last n frames pushed, in push order.
LastPushed(n) == [i \in 1..n |-> nextFrame - 1 - n + i]

\* C1: over one connection, for any interleaving of queueFrame calls, read
\* completions and responses, at most one frame is popped-or-sent and not
\* yet answered (so a frame is popped only when the pending flag is false),
\* and while the connection is open the flag is true from the pop until the
\* response arrives.
C1_SingleInFlight ==
    \A s \in Sockets :
        /\ Outstanding(s) <= 1
        /\ (sock[s].readyState = "OPEN" /\ Outstanding(s) = 1) => processingRef

\* A second frame is awaiting its response while further frames wait queued.
C1_Witness ==
    /\ lastResponse # 0
    /\ \E s \in Sockets : sock[s].readyState = "OPEN" /\ Len(sock[s].inflight) = 1
    /\ Len(frameQueueRef) >= 2

\* C2: the frame queue never holds more than MAX_QUEUE_SIZE frames, in any
\* connection state.
C2_QueueBounded == Len(frameQueueRef) <= MAX_QUEUE_SIZE

\* The queue is at capacity after a push that had to evict.
C2_Witness ==
    /\ Len(frameQueueRef) = MAX_QUEUE_SIZE
    /\ nextFrame - 1 > MAX_QUEUE_SIZE
    /\ frameQueueRef[1] > 1

\* C3: after more than MAX_QUEUE_SIZE pushes with no pop in between the
\* queue holds exactly the last MAX_QUEUE_SIZE frames pushed, in push order,
\* and every push at capacity (without a pop) removes exactly the oldest
\* frame and appends the new one.
C3_DropOldest ==
    /\ [](pushRun > MAX_QUEUE_SIZE => frameQueueRef = LastPushed(MAX_QUEUE_SIZE))
    /\ [][(/\ nextFrame' = nextFrame + 1
           /\ lastPopped' = lastPopped
           /\ Len(frameQueueRef) >= MAX_QUEUE_SIZE)
          => frameQueueRef' = Append(Tail(frameQueueRef), nextFrame)]_vars

\* More pushes than the capacity have arrived since the last pop.
C3_Witness == pushRun > MAX_QUEUE_SIZE /\ Len(frameQueueRef) = MAX_QUEUE_SIZE

\* C4: the queue is in push order and every frame popped is older than every
\* frame retained (it was the oldest); pops, and sends over one connection,
\* happen in push order; processNextFrame on an empty queue, even when
\* connected and idle, pops nothing, starts no read and leaves the flag false.
C4_PopsFifo ==
    /\ [](/\ \A i \in DOMAIN frameQueueRef : lastPopped < frameQueueRef[i]
          /\ \A i, j \in DOMAIN frameQueueRef :
                 i < j => frameQueueRef[i] < frameQueueRef[j]
          /\ LET r == ProcessNextFrame(TRUE, FALSE, <<>>, 0, lastSentTimeRef,
                                       reads, wsRef, sock)
             IN  r.popped = 0 /\ r.proc = FALSE /\ r.rds = reads)
    /\ [][lastPopped' # lastPopped => lastPopped' > lastPopped]_vars
    /\ [][lastSent' # lastSent => lastSent' > lastSent]_vars

\* After frame 1 was answered, frame 3 was popped and sent (frame 2 was
\* evicted meanwhile), with newer frames still retained.
C4_Witness ==
    /\ lastResponse = 1
    /\ lastPopped = 3
    /\ lastSent = 3
    /\ Len(frameQueueRef) >= 2

\* A step in which the current socket opens (its onopen handler runs).
OpenStep == \E s \in Sockets :
    /\ s = wsRef
    /\ sock[s].readyState = "CONNECTING"
    /\ sock'[s].readyState = "OPEN"

\* A step in which the current, open socket delivers a response.
MessageStep == \E s \in Sockets :
    /\ s = wsRef
    /\ sock[s].readyState = "OPEN"
    /\ sock[s].inflight # <<>>
    /\ sock'[s].inflight = Tail(sock[s].inflight)

\* A step that pops the head of the queue and starts reading it.
PopsHead ==
    /\ lastPopped' = Head(frameQueueRef)
    /\ frameQueueRef' = Tail(frameQueueRef)
    /\ Head(frameQueueRef) \in reads'
    /\ processingRef'

\* C5: when the open handler, or the message handler of a decoded response,
\* runs with a non-empty queue and no response outstanding, it pops the head
\* of the queue and starts sending it in that same step.
C5_SendOnOpenAndResponse ==
    [][(/\ frameQueueRef # <<>>
        /\ \/ OpenStep /\ ~processingRef
           \/ MessageStep /\ lastResponse' # lastResponse)
       => PopsHead]_vars

\* C6: a response that fails to decode clears the pending flag, leaves the
\* last delivered response unchanged, and the next send is attempted at
\* once: with a non-empty queue the head is popped in that same step.
C6_DecodeFailureAdvances ==
    [][(MessageStep /\ lastResponse' = lastResponse)
       => /\ ~processingRef' \/ PopsHead
          /\ frameQueueRef # <<>> => PopsHead]_vars

\* The connection is up and nothing is outstanding anywhere: the current
\* socket is open with no frame unanswered, no read is pending and no other
\* socket still awaits its close event.
Quiescent ==
    /\ IsOpen(wsRef, sock)
    /\ sock[wsRef].inflight = <<>>
    /\ reads = {}
    /\ \A s \in Sockets : s # wsRef => sock[s].readyState \in {"NONE", "CLOSED"}

\* C7: once the current socket has closed (by a close or an error event,
\* whether or not a request was outstanding) the pending flag is false; and
\* the flag is never left set once the connection is up again with nothing
\* outstanding, so a queueFrame call on the re-established connection pops
\* the oldest frame and starts sending it.
C7_NoStallAfterClose ==
    /\ []((wsRef # 0 /\ NoLiveSocket(wsRef, sock)) => ~processingRef)
    /\ [](Quiescent => ~processingRef)
    /\ [][(nextFrame' = nextFrame + 1 /\ closureConnected /\ Quiescent)
          => /\ lastPopped' # lastPopped
             /\ lastPopped' \in reads'
             /\ processingRef']_vars

\* Socket 1 closed while frame 1 was unanswered on it; socket 2 has opened
\* and a frame enqueued afterwards has been sent on it.
C7_Witness ==
    /\ sock[1].readyState = "CLOSED"
    /\ sock[1].inflight = <<1>>
    /\ wsRef = 2
    /\ sock[2].readyState = "OPEN"
    /\ sock[2].inflight = <<2>>

\* C8: a step in which a socket closes (close event, with or without an
\* error event before it) leaves the frame queue exactly as it was.
C8_QueueRetainedOnClose ==
    [][(\E s \in Sockets : sock[s].readyState # "CLOSED" /\ sock'[s].readyState = "CLOSED")
       => frameQueueRef' = frameQueueRef /\ queueSize' = queueSize]_vars

\* Socket 1 closed without ever opening; the frame queued for it was
\* retained and has been sent on socket 2.
C8_Witness ==
    /\ sock[1].readyState = "CLOSED"
    /\ ~sock[1].opened
    /\ sock[2].readyState = "OPEN"
    /\ sock[2].inflight = <<1>>

\* C9: the reconnect delay never exceeds the maximum delay and is
\* non-decreasing in the attempt count.
C9_DelayMonotoneBounded ==
    dOutA # -1 =>
        /\ dOutA <= MaxDelay * DelayUnit
        /\ dOutB <= MaxDelay * DelayUnit
        /\ dOutA >= BaseDelay * DelayUnit
        /\ (dA <= dB => dOutA <= dOutB)

\* The delay for 6 attempts is below the maximum, the delay for 12 attempts
\* (beyond the attempt cap) is the maximum.
C9_Witness ==
    /\ dA = 6
    /\ dB = 12
    /\ dOutA # -1
    /\ dOutA < dOutB
    /\ dOutB = MaxDelay * DelayUnit

\* C10: while the current socket is open the attempt counter is zero, and
\* the delay computed when a socket that had opened closes is the base delay.
C10_ResetToBase ==
    /\ IsOpen(wsRef, sock) => connectionAttempts = 0
    /\ lastCloseOpened => lastDelay = BaseDelay * DelayUnit

\* A step in which a reconnect timer set before the latest reconnect() call
\* fires.
StaleTimerFires == staleTimers' < staleTimers

\* C11: a retry timer set by a close event before reconnect() was called
\* never calls connect() afterwards, and retry timers never run side by side
\* (at most one is pending).
C11_ReconnectCancelsRetry ==
    /\ [][StaleTimerFires => nextSock' = nextSock]_vars
    /\ [](timers <= 1)

\* C12: a response whose JSON arrives as a binary buffer is decoded and
\* handed on (setLastResponse) exactly as the same JSON arriving as text.
C12_BinaryDecodedAsText ==
    (respPc \in {"decoded", "processed"} /\ wireKind \in {"text", "binary"})
        => responseData = [ok |-> TRUE, data |-> wireBody]

\* The numbers of the entries of a payload that are accepted: arrays of at
\* least 6 elements whose four coordinates coerce to numbers.
Coerces(j) == ~ToNumber(j).nan
AcceptedEntry(p) ==
    /\ p.isArray
    /\ Len(p.elems) >= 6
    /\ \A k \in 3..6 : Coerces(p.elems[k])
Accepted(entries) == {i \in DOMAIN entries : AcceptedEntry(entries[i].val)}

\* The records of the output made for track identifier key.
RecordsFor(key) == {i \in DOMAIN predictions : predictions[i].trackId = key}

\* C19: every accepted entry trackId -> [name, conf, x1, y1, x2, y2] yields
\* one record whose trackId is the key, whose box is (min(x1,x2), min(y1,y2),
\* max(x1,x2), max(y1,y2)) and whose confidence is the coerced value,
\* unclamped; every output record has x1 <= x2 and y1 <= y2; the payload
\* {"7": ["Alice", 0.92, 50, 80, 10, 200]} yields exactly the record
\* ("7", 10, 80, 50, 200).
C19_RecordNormalized ==
    respPc = "processed" =>
        LET entries == wireBody.predictions
        IN  /\ \A i \in DOMAIN predictions :
                   predictions[i].x1 <= predictions[i].x2
                       /\ predictions[i].y1 <= predictions[i].y2
            /\ \A i \in Accepted(entries) :
                   LET e == entries[i].val.elems
                   IN  \E j \in DOMAIN predictions :
                          /\ RecordsFor(entries[i].key) = {j}
                          /\ predictions[j].x1 = Min(ToNumber(e[3]).v, ToNumber(e[5]).v)
                          /\ predictions[j].y1 = Min(ToNumber(e[4]).v, ToNumber(e[6]).v)
                          /\ predictions[j].x2 = Max(ToNumber(e[3]).v, ToNumber(e[5]).v)
                          /\ predictions[j].y2 = Max(ToNumber(e[4]).v, ToNumber(e[6]).v)
                          /\ predictions[j].confidence = ToNumber(e[2])
            /\ wireBody = ExampleBody =>
                   predictions = <<[trackId |-> "7", name |-> "Alice",
                                    confidence |-> Num(92),
                                    x1 |-> 10, y1 |-> 80, x2 |-> 50, y2 |-> 200]>>

\* The example payload has been processed into its one record, its box
\* swapped into order.
C19_Witness ==
    /\ respPc = "processed"
    /\ wireBody = ExampleBody
    /\ Len(predictions) = 1
    /\ predictions[1].x1 = 10
    /\ predictions[1].x2 = 50

\* C20: an entry is dropped exactly when it is not an array, has fewer than
\* 6 elements, or one of its four coordinates does not coerce to a number;
\* every other entry yields exactly one record, whatever accompanies it.
C20_DropsExactlyInvalid ==
    respPc = "processed" =>
        LET entries == wireBody.predictions
        IN  /\ Len(predictions) = Cardinality(Accepted(entries))
            /\ \A i \in DOMAIN entries :
                   Cardinality(RecordsFor(entries[i].key))
                       = IF AcceptedEntry(entries[i].val) THEN 1 ELSE 0

\* An array of 4 elements was dropped and the valid entry that follows it in
\* the same payload produced the only record.
C20_Witness ==
    /\ respPc = "processed"
    /\ Len(wireBody.predictions) = 2
    /\ wireBody.predictions[1].val.isArray
    /\ Len(wireBody.predictions[1].val.elems) = 4
    /\ Len(predictions) = 1
    /\ predictions[1].trackId = "12"

\* A step in which a toBlob callback runs whose encode began before the
\* latest stopVideoStream.
LateEncodeDone == staleEncodes' < staleEncodes

\* C13: the completion of an encode that was in flight when capture was
\* stopped hands no frame to onFrame and schedules no capture tick.
C13_LateEncodeNoOp ==
    [][LateEncodeDone => /\ emitted' = emitted
                         /\ ticksPending' = ticksPending
                         /\ rafRef' = rafRef]_vars

\* A step of a handler that calls stopVideoStream.
StopStep ==
    \/ ClickStop
    \/ ToggleCamera
    \/ StartWebcam
    \/ RestartTimer
    \/ \E s \in {"webcam", "file"} : SetSource(s)

\* C14: after stopVideoStream the attached stream has its tracks stopped and
\* is detached, no blob URL is attached or left unrevoked, rafRef is null
\* and no capture tick is pending, and both counters are zero, from whatever
\* state it is called.
C14_StopTearsDown ==
    [][StopStep => /\ srcObject' = 0
                   /\ srcObject # 0 => streams'[srcObject] = "stopped"
                   /\ videoSrc' = ""
                   /\ liveUrls' = 0
                   /\ rafRef' = "null"
                   /\ ticksPending' = 0
                   /\ frameCountRef' = 0
                   /\ skipFrameCountRef' = 0]_vars

\* A step in which captureFrame runs before the capture interval has
\* elapsed since the last accepted capture.
EarlyTick == now' # now /\ now' - lastCaptureTimeRef < FpsInterval

\* C15: a tick that arrives before the capture interval has elapsed is
\* rescheduled and does nothing else: no encode starts, no frame is handed
\* on, the counters and the last-capture time are unchanged.
C15_EarlyTickRescheduled ==
    [][EarlyTick => /\ rafRef' = "pending"
                    /\ ticksPending' = ticksPending
                    /\ encodes' = encodes
                    /\ emitted' = emitted
                    /\ frameCountRef' = frameCountRef
                    /\ skipFrameCountRef' = skipFrameCountRef
                    /\ lastCaptureTimeRef' = lastCaptureTimeRef]_vars

\* While capturing, after one frame was emitted, a tick came too early.
C15_Witness ==
    /\ lastTick = "early"
    /\ isPlaying
    /\ VideoReady
    /\ emitted = 1
    /\ frameCountRef = 1
    /\ now - lastCaptureTimeRef < FpsInterval

\* C16: with frame-skip factor N, the skip counter is the frame counter
\* modulo N; an accepted tick (one that advances the frame counter to k+1)
\* starts an encode exactly when (k+1) mod N = 0 and otherwise only advances
\* the counters; a frame is emitted only by the completion of an encode.
C16_OneInN ==
    /\ [](skipFrameCountRef = frameCountRef % frameSkip)
    /\ [][frameCountRef' = frameCountRef + 1
            => /\ emitted' = emitted
               /\ IF frameCountRef' % frameSkip = 0
                  THEN encodes' = encodes + 1
                  ELSE encodes' = encodes /\ rafRef' = "pending"]_vars
    /\ [][emitted' # emitted
            => emitted' = emitted + 1 /\ encodes' = encodes - 1]_vars

\* With N = 3, six ticks were accepted and the two encoded ones emitted.
C16_Witness ==
    /\ frameSkip = 3
    /\ frameCountRef = 6
    /\ emitted = 2
    /\ encodes = 0

\* Steps in which a getUserMedia request fails, and in which the relaxed
\* request is made.
ExactFailed == gumExact' = gumExact - 1 /\ nextStream' = nextStream
IdealFailed ==
    gumIdeal' = gumIdeal - 1 /\ gumExact' = gumExact /\ nextStream' = nextStream
Retried == gumIdeal' > gumIdeal

\* C17: a failing getUserMedia leaves isPlaying as it was (false stays
\* false) and schedules no tick; it sets the error unless it is answered
\* with the relaxed request, which is made once, and exactly when the exact
\* request failed with OverconstrainedError.
C17_FailureIdleOneRetry ==
    /\ [][(ExactFailed \/ IdealFailed)
            => /\ isPlaying' = isPlaying
               /\ ticksPending' = ticksPending
               /\ rafRef' = rafRef
               /\ Retried \/ videoError' = "webcam"]_vars
    /\ [][Retried <=> (ExactFailed /\ lastGum'.outcome = "OverconstrainedError")]_vars
    /\ [][Retried => gumIdeal' = gumIdeal + 1]_vars

\* The exact request failed with OverconstrainedError, the relaxed request
\* failed too: the error is set and capture is idle.
C17_Witness ==
    /\ lastGum = [mode |-> "ideal", outcome |-> "NotAllowedError"]
    /\ videoError = "webcam"
    /\ ~isPlaying
    /\ ticksPending = 0
    /\ gumExact = 0
    /\ gumIdeal = 0
    /\ starts = 1

\* Streams held with unstopped tracks.
LiveStreams == {i \in Streams : streams[i] = "live"}

\* C18: at no time are two media streams live at once.
C18_OneStreamLive == Cardinality(LiveStreams) <= 1


\* The response or its predictions field is absent.
PredictionsAbsent(response) == response.isNull \/ ~response.body.hasPredictions

\* C21: processWebSocketResponse never throws: every call returns a list,
\* and the empty list when the response or its predictions field is absent.
C21_NeverThrows ==
    procPc = "done" =>
        /\ ~procOut.threw
        /\ DOMAIN procOut.value = 1..Len(procOut.value)
        /\ PredictionsAbsent(procInput) => procOut.value = <<>>

\* Called with null: returned the empty list.
C21_Witness ==
    /\ procPc = "done"
    /\ procInput.isNull
    /\ procOut = Returned(<<>>)

\* The entries of a log, as a set.
Entries(log) == {log[i] : i \in DOMAIN log}

\* A step that is an ingest.
IngestStep == ingests' = ingests + 1

\* C22: no two retained exit-log entries have the same identity key (sorted
\* names joined, plus sortTime): the log has as many keys as entries; and an
\* ingest all of whose entries have a retained key leaves the log unchanged.
C22_KeysUnique ==
    /\ [](Cardinality(ExistingEntries(exitLog)) = Len(exitLog))
    /\ [][IngestStep /\ ExistingEntries(lastIngest'.offered) \subseteq ExistingEntries(exitLog)
            => exitLog' = exitLog]_vars

\* A push found its key retained (the same names in the same millisecond,
\* or a pulled entry of that instant) and changed nothing.
C22_Witness ==
    /\ lastIngest.kind = "push"
    /\ lastIngest.offered # <<>>
    /\ ~lastIngest.added
    /\ Len(exitLog) >= 2

\* The entries an ingest step dropped: held before or built by the ingest,
\* and not retained after it.
Evicted == (Entries(exitLog) \cup Entries(lastIngest'.offered)) \ Entries(exitLog')

\* C23: an ingest evicts the oldest entries: no evicted entry has a sortTime
\* greater than that of a retained entry.
C23_EvictsOldest ==
    [][IngestStep => \A e \in Evicted : \A r \in Entries(exitLog') :
                         e.sortTime <= r.sortTime]_vars

\* C24: every (name, timestamp) pair a pull returns, periodic or
\* stop-triggered, is converted into its own entry with names [name] and the
\* epoch value of its own timestamp as sortTime.
C24_PairsBecomeEntries ==
    lastIngest.kind \in {"pull", "stop"} =>
        \A i \in DOMAIN lastIngest.batch :
            [names |-> <<NameItem(lastIngest.batch[i].n)>>,
             sortTime |-> DateParse(lastIngest.batch[i].t)] \in Entries(lastIngest.offered)

\* The sequence ExitLog renders.
Rendered == SortedEntries(exitLog)

\* r is a rearrangement of s.
IsPermutation(r, s) ==
    /\ Len(r) = Len(s)
    /\ \A e \in Entries(r) \cup Entries(s) :
           Cardinality({i \in DOMAIN r : r[i] = e}) = Cardinality({i \in DOMAIN s : s[i] = e})

\* C25: the exit log is rendered newest-first: the rendered sequence is a
\* permutation of the retained entries with non-increasing sortTime.
C25_NewestFirst ==
    LET r == Rendered
    IN  /\ IsPermutation(r, exitLog)
        /\ \A i \in 1..(Len(r) - 1) : r[i].sortTime >= r[i + 1].sortTime

\* The log holds entries out of order: an older entry before a newer one.
C25_Witness ==
    /\ Len(exitLog) >= 3
    /\ \E i \in 1..(Len(exitLog) - 1) : exitLog[i].sortTime < exitLog[i + 1].sortTime
    /\ lastIngest.kind = "push"
    /\ Rendered # exitLog

\* C28: the exit history never holds more than 50 entries, and not more than
\* 20 right after a push or stop-triggered ingest added an entry.
C28_HistoryCapped ==
    /\ Len(exitLog) <= PULL_CAP
    /\ (lastIngest.kind \in {"push", "stop"} /\ lastIngest.added) => Len(exitLog) <= PUSH_CAP

\* A push added an entry to a full history and cut it to the smaller cap.
C28_Witness ==
    /\ lastIngest.kind = "push"
    /\ lastIngest.added
    /\ Len(exitLog) = PUSH_CAP
    /\ ingests = 2

\* C26: each box coordinate drawn is the prediction's coordinate times the
\* displayed size over the intrinsic size of its axis, as measured by the
\* latest updateCanvasDimensions, before clamping; intrinsic 1280x720,
\* displayed 640x360 and box (100,100,200,200) give (50,50,100,100).
C26_OverlayScaling ==
    /\ \A i \in DOMAIN drawn :
           /\ drawn[i].pred = ovPredictions[i]
           /\ drawn[i].scaled.x1 = Frac(drawn[i].pred.x1 * videoRect.rect.w, videoRect.video.w)
           /\ drawn[i].scaled.x2 = Frac(drawn[i].pred.x2 * videoRect.rect.w, videoRect.video.w)
           /\ drawn[i].scaled.y1 = Frac(drawn[i].pred.y1 * videoRect.rect.h, videoRect.video.h)
           /\ drawn[i].scaled.y2 = Frac(drawn[i].pred.y2 * videoRect.rect.h, videoRect.video.h)
    /\ (/\ drawn # NothingDrawn
        /\ videoRect.video = [w |-> 1280, h |-> 720]
        /\ videoRect.rect = [w |-> 640, h |-> 360]
        /\ ovPredictions = <<ExampleBox>>)
           => drawn[1].scaled = [x1 |-> <<50, 1>>, y1 |-> <<50, 1>>,
                                 x2 |-> <<100, 1>>, y2 |-> <<100, 1>>]

\* The example box drawn on a 640x360 display of 1280x720 video.
C26_Witness ==
    /\ drawn # NothingDrawn
    /\ videoRect.video = [w |-> 1280, h |-> 720]
    /\ videoRect.rect = [w |-> 640, h |-> 360]
    /\ ovPredictions = <<ExampleBox>>
    /\ drawn[1].scaled.x1 = <<50, 1>>

\* ------------------------------------------------------------ C27
\* No frame that was sent is waiting for its response on any socket.
NoFrameAwaiting == \A s \in Sockets : sock[s].inflight = <<>>

\* C27: the recorded latency changes only with a response to the frame whose
\* send set the pending timestamp, and a message that arrives while no sent
\* frame awaits a response leaves the recorded latency alone.
C27_LatencyOnlyMatched ==
    /\ [][lastLatency' # lastLatency => lastLatency'[1] = lastLatency'[2]]_vars
    /\ [][NoFrameAwaiting => lastLatency' = lastLatency]_vars

\* ------------------------------------------------------------ C29
\* A toBlob callback that received no blob has just run.
NullBlobStep == encodes' = encodes - 1 /\ lastBlob' = "null"

\* C29: when the encode completes with a null blob, no frame is handed to
\* onFrame or queued, exactly one next capture tick is requested and rafRef
\* refers to it, and no error is shown.
C29_NullBlobSkipsTick ==
    [][NullBlobStep =>
          /\ emitted' = emitted
          /\ frameQueueRef' = frameQueueRef
          /\ queueSize' = queueSize
          /\ ticksPending' = ticksPending + 1
          /\ rafRef' = "pending"
          /\ videoError' = videoError
          /\ isPlaying' = isPlaying]_vars

\* The first encode of a playing capture failed: nothing was emitted and the
\* next tick is pending.
C29_Witness ==
    /\ lastBlob = "null"
    /\ isPlaying
    /\ emitted = 0
    /\ frameCountRef = 1
    /\ encodes = 0
    /\ rafRef = "pending"
    /\ ticksPending = 1
    /\ videoError = "null"

\* ------------------------------------------------------------ C30
\* The size the downscale rule states for a source of this size.
RuleSize(video) ==
    IF video.w <= MAX_DIMENSION /\ video.h <= MAX_DIMENSION THEN video
    ELSE IF video.w >= video.h
         THEN [w |-> MAX_DIMENSION, h |-> (video.h * MAX_DIMENSION) \div video.w]
         ELSE [w |-> (video.w * MAX_DIMENSION) \div video.h, h |-> MAX_DIMENSION]

\* C30: a source with neither dimension above MAX_DIMENSION is captured at
\* its own size; otherwise the larger dimension becomes MAX_DIMENSION and the
\* other floor(other * MAX_DIMENSION / larger), both at most MAX_DIMENSION.
C30_DownscaleRule ==
    canvasDims # NoDims =>
        /\ canvasDims = RuleSize(videoDims)
        /\ canvasDims.w <= MAX_DIMENSION
        /\ canvasDims.h <= MAX_DIMENSION

\* ------------------------------------------------------------ C31
\* C31: for every prediction drawn, the four clamped coordinates lie in
\* [0, canvas width] (x) and [0, canvas height] (y), they are the scaled
\* coordinates wherever those are in range, and the stroked rectangle is at
\* least MIN_BOX wide and high, zero-area boxes included.
C31_ClampedAndFloored ==
    \A i \in DOMAIN drawn :
        LET d  == drawn[i]
            W  == <<ovCanvas.w, 1>>
            H  == <<ovCanvas.h, 1>>
            In(v, lim) == FracLeq(<<0, 1>>, v) /\ FracLeq(v, lim)
        IN  /\ In(d.clamped.x1, W) /\ In(d.clamped.x2, W)
            /\ In(d.clamped.y1, H) /\ In(d.clamped.y2, H)
            /\ In(d.scaled.x1, W) => d.clamped.x1 = d.scaled.x1
            /\ In(d.scaled.x2, W) => d.clamped.x2 = d.scaled.x2
            /\ In(d.scaled.y1, H) => d.clamped.y1 = d.scaled.y1
            /\ In(d.scaled.y2, H) => d.clamped.y2 = d.scaled.y2
            /\ d.box.x = d.clamped.x1 /\ d.box.y = d.clamped.y1
            /\ FracLeq(<<MIN_BOX, 1>>, d.box.w)
            /\ FracLeq(<<MIN_BOX, 1>>, d.box.h)
            /\ FracLeq(FracMinus(d.clamped.x2, d.clamped.x1), d.box.w)
            /\ FracLeq(FracMinus(d.clamped.y2, d.clamped.y1), d.box.h)

\* A zero-area box inside the canvas is drawn MIN_BOX wide and high.
C31_Witness ==
    /\ drawn # NothingDrawn
    /\ drawn[1].pred.x1 = drawn[1].pred.x2
    /\ drawn[1].pred.y1 = drawn[1].pred.y2
    /\ drawn[1].pred.x1 = 100
    /\ drawn[1].box.w = <<MIN_BOX, 1>>
    /\ drawn[1].box.h = <<MIN_BOX, 1>>

\* ------------------------------------------------------------ C32
\* C32: for every prediction drawn, the label background ends at or before
\* the right edge of the canvas and starts at or below its top edge, and its
\* bottom is the top of the box whenever the label fits above the box.
C32_LabelInsideCanvas ==
    \A i \in DOMAIN drawn :
        LET d == drawn[i]
        IN  /\ FracLeq(FracPlus(d.label.x, <<d.label.w, 1>>), <<ovCanvas.w, 1>>)
            /\ FracLeq(<<0, 1>>, d.label.y)
            /\ FracLeq(<<d.label.h, 1>>, d.clamped.y1)
                   => FracPlus(d.label.y, <<d.label.h, 1>>) = d.clamped.y1

\* C32 as amended: the label background never starts left of the canvas or
\* above it; a label no wider than the canvas ends at or before the right
\* edge, a wider one starts at the left edge; and its bottom is the top of
\* the box whenever the label fits above the box.
C32_LabelPlacement ==
    \A i \in DOMAIN drawn :
        LET d == drawn[i]
        IN  /\ FracLeq(<<0, 1>>, d.label.x)
            /\ FracLeq(<<0, 1>>, d.label.y)
            /\ d.label.w <= ovCanvas.w
                   => FracLeq(FracPlus(d.label.x, <<d.label.w, 1>>), <<ovCanvas.w, 1>>)
            /\ d.label.w > ovCanvas.w => d.label.x = <<0, 1>>
            /\ FracLeq(<<d.label.h, 1>>, d.clamped.y1)
                   => FracPlus(d.label.y, <<d.label.h, 1>>) = d.clamped.y1

\* A box at the right edge whose label fits the canvas: the label is moved
\* left to end at the edge, directly above the box.
C32_Witness ==
    /\ drawn # NothingDrawn
    /\ drawn[1].clamped.x1 = <<ovCanvas.w, 1>>
    /\ drawn[1].label.w <= ovCanvas.w
    /\ FracPlus(drawn[1].label.x, <<drawn[1].label.w, 1>>) = <<ovCanvas.w, 1>>
    /\ FracPlus(drawn[1].label.y, <<drawn[1].label.h, 1>>) = drawn[1].clamped.y1

\* ------------------------------------------------------------ C33
\* A resync trigger has just fired: the video element got its metadata
\* (loadedmetadata), or a measurement by the observers or the interval ran.
MetadataLoaded == ovVideo' # ovVideo
Measured == videoRect' # videoRect

\* C33: after each resync trigger, the video's loadedmetadata event
\* included, the canvas has the size of the video's displayed rectangle and
\* the scale factors are displayed size over intrinsic size.
C33_TriggersResync ==
    [][(MetadataLoaded \/ Measured) =>
           /\ ovCanvas' = ovRect'
           /\ scaleFactor' = ScaleFactorOf(ovRect', ovVideo')]_vars

\* ------------------------------------------------------------ C34
\* C34: a resync while the intrinsic width or height of the video is not
\* positive changes neither the canvas size nor the stored scale factors nor
\* the stored rectangle, and a resync is skipped only then.
C34_NotReadySkipped ==
    /\ [][(ovVideo.w <= 0 \/ ovVideo.h <= 0)
              /\ ovVideo' = ovVideo /\ ovPredictions' = ovPredictions
              => /\ ovCanvas' = ovCanvas
                 /\ scaleFactor' = scaleFactor
                 /\ videoRect' = videoRect
                 /\ drawn' = drawn]_vars
    /\ [][lastMeasure' = "skipped" => (ovVideo'.w <= 0 \/ ovVideo'.h <= 0)
                                         \/ lastMeasure = "skipped"]_vars

\* A resync was skipped while the canvas differs from the displayed
\* rectangle: a measurement would have changed it.
C34_Witness ==
    /\ lastMeasure = "skipped"
    /\ ovVideo.w <= 0
    /\ ovCanvas # ovRect
    /\ ovPredictions # <<>>

\* ------------------------------------------------------------ C35
\* C35: across closes and reconnects, at most one frame sent on the current
\* socket is unanswered, and a frame whose read was pending when a
\* connection closed is not sent next to another outstanding frame.
C35_SingleInFlightAcrossReconnect ==
    wsRef # 0 => Len(sock[wsRef].inflight) <= 1

\* ------------------------------------------------------------ C36
\* The close event of a socket that wsRef no longer refers to is delivered.
SupersededClose ==
    \E s \in Sockets : /\ s # wsRef
                       /\ sock[s].readyState # "CLOSED"
                       /\ sock'[s].readyState = "CLOSED"

\* C36: the close event of a superseded socket changes neither isConnected
\* nor the pending-response flag, and while the current socket stays open
\* isConnected stays true.
C36_SupersededSocketInert ==
    /\ [][SupersededClose => /\ isConnected' = isConnected
                             /\ processingRef' = processingRef]_vars
    /\ [][(/\ wsRef # 0 /\ wsRef' = wsRef
           /\ sock[wsRef].readyState = "OPEN" /\ sock'[wsRef].readyState = "OPEN"
           /\ isConnected) => isConnected']_vars

\* ------------------------------------------------------------ C37
\* C37: once the hook is unmounted no socket is created any more and the
\* reference stays cleared.
C37_NoConnectAfterUnmount ==
    [][mountState = "unmounted" => nextSock' = nextSock /\ wsRef' = 0]_vars

\* ------------------------------------------------------------ C38
\* C38: at most one captureFrame callback is pending at any time and rafRef
\* refers to it, so that the cancel of stopVideoStream leaves none.
C38_OneTickPending ==
    /\ ticksPending <= 1
    /\ ticksPending = 1 => rafRef = "pending"

\* ------------------------------------------------------------ C39
\* C39: while isConnected is false the frame queue does not change and no
\* frame is taken from it: a frame emitted then is dropped by handleFrame.
C39_NoEnqueueWhileDisconnected ==
    [][~isConnected => /\ frameQueueRef' = frameQueueRef
                       /\ reads' \subseteq reads]_vars

\* ------------------------------------------------------------ C40
\* C40: every camera request, the one made by the restart that follows a
\* camera toggle included, asks for the facing mode that was current when
\* its startWebcam call began, in the exact request and in the relaxed
\* retry.
C40_RestartUsesToggledFacing ==
    \A mode \in GumModes : \A r \in Requests :
        gumReqs[mode][r] > 0 => r.facing = r.wanted

=============================================================================
